---------------------------- MODULE Spec2Model ----------------------------
(***************************************************************************)
(* Model of avocado's yaml_to_mux varianter: the tag-aware YAML loader,    *)
(* the tree assembler (_tree_node_from_values and helpers), the file       *)
(* reference parser and the multi-file orchestrator create_from_yaml.      *)
(*                                                                         *)
(* Python strings are sequences of one-character strings, so that split,   *)
(* strip, dirname and the regular expressions are computed, not assumed.   *)
(* Python exceptions are result records: every operator that can raise or  *)
(* touch the world returns [w, err, val].                                  *)
(***************************************************************************)
EXTENDS Naturals, Sequences, FiniteSets, TLC

VARIABLES
    \* ---- create_from_yaml (multi-file orchestrator) ----
    fs,        \* the file system: file path -> content
    mergeNone, \* what the tree's merge does when given None: "raises" or
               \* "returns" (the tree class is not part of this program)
    paths,     \* argument: the list of file specifiers
    debug,     \* argument: debug flag
    pc,        \* position in create_from_yaml
    idx,       \* number of paths whose merge(data, path) call has returned
    path,      \* the loop variable `path` (None before the first iteration)
    data,      \* the accumulator node
    tmp,       \* result of _create_from_yaml inside _merge
    err,       \* the exception in flight / raised to the caller
    reg,       \* constructors registered on the (shared) loader class
    open,      \* file handles currently open, innermost last
    log,       \* trace of events (open, close, include, merge, ...)
    \* ---- _tree_node_from_values applied to one loaded mapping ----
    ydoc,      \* the YAML mapping node given to the loader
    aname,     \* the name the node is created with
    apc,       \* "init" -> "loaded" -> "built"
    loaded,    \* what the loader returned for ydoc
    out,       \* what _tree_node_from_values returned
    \* ---- the file reference parser applied to one specifier ----
    rspec,     \* the string the specifier is made from
    rpc,       \* "init" -> "parsed" | "escaped"
    rout,      \* the (using, path) the parser returned
    \* ---- two _create_from_yaml calls running in two threads ----
    cspecs,    \* thread -> the specifier it loads
    cdebug,    \* thread -> its debug flag
    cpc,       \* thread -> "start" -> "registered" -> "parsed" -> "done"
    cout,      \* thread -> what its call returned or raised
    \* ---- YamlToMux.initialize around create_from_yaml ----
    subcommand, \* config: the subcommand
    ipc,        \* position in initialize
    iexit,      \* how initialize ended: SystemExit with a code, or an
                \* exception that left it
    isteps,     \* what initialize did, in order
    \* ---- download.get_file ----
    dargs,      \* arguments: src == dst, hash_expected given, download_retries
    dst_hash,   \* the hash of the file at dst now (None when there is none)
    dpc,        \* position in get_file
    hash_file,  \* local hash_file
    download_failures, \* local download_failures
    downloads,  \* number of url_download / copyfile calls made
    dret,       \* what get_file returned or raised
    \* ---- Resolver.resolve ----
    exts,       \* self.extensions: what each extension's resolve does
    epc,        \* position in resolve
    eidx,       \* number of extensions consulted
    resolution, \* local resolution
    eraised     \* the exception that left resolve, if any

vars == <<fs, mergeNone, paths, debug, pc, idx, path, data, tmp, err, reg, open, log,
          ydoc, aname, apc, loaded, out, rspec, rpc, rout,
          cspecs, cdebug, cpc, cout,
          subcommand, ipc, iexit, isteps,
          dargs, dst_hash, dpc, hash_file, download_failures, downloads, dret,
          exts, epc, eidx, resolution, eraised>>

orchVars == <<fs, mergeNone, paths, debug, pc, idx, path, data, tmp, err, reg, open, log>>
asmVars == <<ydoc, aname, apc, loaded, out>>
refVars == <<rspec, rpc, rout>>
concVars == <<cspecs, cdebug, cpc, cout>>
plugVars == <<subcommand, ipc, iexit, isteps>>
dlVars == <<dargs, dst_hash, dpc, hash_file, download_failures, downloads, dret>>
resVars == <<exts, epc, eidx, resolution, eraised>>

-----------------------------------------------------------------------------
(* Bounds *)

MaxEntries == 3     \* entries per generated mapping
MaxSegs == 2        \* segments of a generated !using path
MaxPaths == 2       \* length of the paths list
MaxDepth == 3       \* nesting of _create_from_yaml calls before Python gives up
MaxSpecLen == 5     \* characters of a generated file specifier
MaxRetries == 2     \* largest download_retries given to get_file
MaxExts == 3        \* resolver extensions

-----------------------------------------------------------------------------
(* Program constants *)

YAML_INCLUDE == 100
YAML_USING == 101
YAML_REMOVE_NODE == 0
YAML_REMOVE_VALUE == 1
YAML_MUX == 102
YAML_FILTER_ONLY == 103
YAML_FILTER_OUT == 104

-----------------------------------------------------------------------------
(* Python strings *)

Last(s) == s[Len(s)]
Front(s) == SubSeq(s, 1, Len(s) - 1)
Reverse(s) == [i \in 1..Len(s) |-> s[Len(s) + 1 - i]]

RECURSIVE SplitAcc(_, _, _, _)
SplitAcc(s, sep, cur, acc) ==
    IF s = <<>> THEN Append(acc, cur)
    ELSE IF Head(s) = sep THEN SplitAcc(Tail(s), sep, <<>>, Append(acc, cur))
    ELSE SplitAcc(Tail(s), sep, Append(cur, Head(s)), acc)

\* str.split(sep): empty segments are kept, "".split(sep) is [""]
Split(s, sep) == SplitAcc(s, sep, <<>>, <<>>)

RECURSIVE LStrip(_, _)
LStrip(s, ch) == IF s # <<>> /\ Head(s) = ch THEN LStrip(Tail(s), ch) ELSE s

RECURSIVE RStrip(_, _)
RStrip(s, ch) == IF s # <<>> /\ Last(s) = ch THEN RStrip(Front(s), ch) ELSE s

\* str.strip(ch)
Strip(s, ch) == RStrip(LStrip(s, ch), ch)

StartsWith(s, ch) == s # <<>> /\ Head(s) = ch

\* os.path.isabs
IsAbs(p) == StartsWith(p, "/")

\* index of the last ch in s, 0 when there is none
LastIndexOf(s, ch) ==
    LET I == {i \in 1..Len(s) : s[i] = ch}
    IN IF I = {} THEN 0 ELSE CHOOSE i \in I : \A j \in I : j <= i

\* os.path.dirname (posixpath): head up to the last '/', trailing slashes
\* of the head removed unless the head is all slashes
Dirname(p) ==
    LET i == LastIndexOf(p, "/")
        head == SubSeq(p, 1, i)
    IN IF head # <<>> /\ \E k \in 1..Len(head) : head[k] # "/"
       THEN RStrip(head, "/") ELSE head

\* os.path.join(a, b) (posixpath)
Join(a, b) ==
    IF StartsWith(b, "/") THEN b
    ELSE IF a = <<>> \/ Last(a) = "/" THEN a \o b
    ELSE a \o <<"/">> \o b

-----------------------------------------------------------------------------
(* Results of operations that may raise *)

NoErr == [kind |-> "none"]
NoneVal == [kind |-> "none"]
Str(s) == [kind |-> "str", s |-> s]

Ret(w, v) == [w |-> w, err |-> NoErr, val |-> v]
Raise(w, e) == [w |-> w, err |-> e, val |-> NoneVal]
Failed(r) == r.err.kind # "none"

Emit(w, e) == [w EXCEPT !.log = Append(@, e)]

\* str(exception) is a sequence of phrases
IndexErrorMsg == <<"string index out of range">>

\* one call followed by the rest of the body: an exception the call raised
\* propagates, otherwise the rest runs on what the call returned
Then(r, rest(_)) == IF Failed(r) THEN r ELSE rest(r)

-----------------------------------------------------------------------------
(* The tree node class (mux.MuxTreeNode / mux.MuxTreeNodeDebug)            *)

RECURSIVE AddChildren(_, _)
\* TreeNode.add_child for each of children: the child is appended
AddChildren(node, children) ==
    IF children = <<>> THEN node
    ELSE AddChildren([node EXCEPT !.children = Append(@, Head(children))],
                     Tail(children))

\* cls_node(name, children=children)
NewNode(cls, name, children) ==
    AddChildren([kind |-> "node", cls |-> cls, name |-> name, value |-> <<>>,
                 children |-> <<>>, multiplex |-> FALSE, ctrl |-> <<>>,
                 filters |-> [only |-> <<>>, out |-> <<>>], merged |-> <<>>],
                children)

\* node.add_child(child)
AddChild(node, child) == AddChildren(node, <<child>>)

\* node.merge(other): the merge algorithm is the tree's own; the model
\* records the call and its argument in order
Merge(node, other) == [node EXCEPT !.merged = Append(@, other)]

\* d[key] = v on an insertion-ordered dict kept as a sequence of [k, v]
DictPut(d, k, v) ==
    IF \E i \in 1..Len(d) : d[i].k = k
    THEN [i \in 1..Len(d) |-> IF d[i].k = k THEN [k |-> k, v |-> v] ELSE d[i]]
    ELSE Append(d, [k |-> k, v |-> v])

RECURSIVE OrderedDictAcc(_, _)
OrderedDictAcc(pairs, d) ==
    IF pairs = <<>> THEN d
    ELSE OrderedDictAcc(Tail(pairs), DictPut(d, Head(pairs).k, Head(pairs).v))

\* faulty variant: a repeated key keeps its first value
OrderedDictKeepFirst(pairs) ==
    [kind |-> "dict",
     items |-> LET ks == {pairs[i].k : i \in 1..Len(pairs)}
                   first(k) == CHOOSE i \in 1..Len(pairs) :
                                 pairs[i].k = k /\ \A j \in 1..(i - 1) : pairs[j].k # k
               IN SelectSeq([i \in 1..Len(pairs) |->
                               [k |-> pairs[i].k, v |-> pairs[i].v,
                                keep |-> first(pairs[i].k) = i]],
                            LAMBDA x : x.keep)]

\* collections.OrderedDict(pairs)
OrderedDict(pairs) == [kind |-> "dict", items |-> OrderedDictAcc(pairs, <<>>)]

\* ListOfNodeObjects
ListOfNodeObjects(items) == [kind |-> "list", items |-> items]

\* mux.Control(code)
Control(code) == [kind |-> "ctrl", code |-> code, value |-> NoneVal]

\* a (key, value) tuple in a ListOfNodeObjects or in _value
Pair(k, v) == [kind |-> "pair", k |-> k, v |-> v]

\* astring.to_text of a mapping key
ToText(k) == IF k.kind = "ctrl" THEN <<"<Control>">> ELSE k.s

\* Python truth value of a loaded value
Truthy(v) ==
    CASE v.kind = "none" -> FALSE
      [] v.kind = "str" -> v.s # <<>>
      [] v.kind \in {"dict", "list"} -> v.items # <<>>
      [] OTHER -> TRUE

-----------------------------------------------------------------------------
(* YAML nodes, as the parser hands them to the constructors *)

YScalar(tag, s) == [kind |-> "scalar", tag |-> tag, s |-> s]
YStr(s) == YScalar("str", s)
YNull == YScalar("null", <<>>)
YMap(tag, entries) == [kind |-> "mapping", tag |-> tag, value |-> entries]
YEnt(k, v) == [key |-> k, val |-> v]

\* the tags registered with SafeLoader.add_constructor in _BaseLoader
CtrlCode(tag) ==
    CASE tag = "!include" -> YAML_INCLUDE
      [] tag = "!using" -> YAML_USING
      [] tag = "!remove_node" -> YAML_REMOVE_NODE
      [] tag = "!remove_value" -> YAML_REMOVE_VALUE
      [] tag = "!filter-only" -> YAML_FILTER_ONLY
      [] tag = "!filter-out" -> YAML_FILTER_OUT

CtrlTags == {"!include", "!using", "!remove_node", "!remove_value",
             "!filter-only", "!filter-out"}

\* key_node.tag.startswith('!')
TagStartsWithBang(tag) == tag \in CtrlTags \cup {"!mux"}

-----------------------------------------------------------------------------
(* File reference syntax: [$using:]$path *)

\* faulty variant: the split is at the first ':' whatever precedes it
FirstColon(s) ==
    LET I == {i \in 1..Len(s) : s[i] = ":"}
    IN IF I = {} THEN 0 ELSE CHOOSE i \in I : \A j \in I : i <= j

\* __RE_FILE_SPLIT.split(s, 1): position of the first ':' not preceded by
\* a backslash, 0 when there is none
FirstUnescapedColon(s) ==
    LET I == {i \in 1..Len(s) : s[i] = ":" /\ (i = 1 \/ s[i - 1] # "\\")}
    IN IF I = {} THEN 0 ELSE CHOOSE i \in I : \A j \in I : i <= j

RECURSIVE FileSubsFrom(_, _)
\* __RE_FILE_SUBS.sub(':', s), scanning from position i: a backslash-colon
\* not preceded by a backslash becomes ':'
FileSubsFrom(s, i) ==
    IF i > Len(s) THEN <<>>
    ELSE IF /\ s[i] = "\\"
            /\ i + 1 <= Len(s) /\ s[i + 1] = ":"
            /\ (i = 1 \/ s[i - 1] # "\\")
         THEN <<":">> \o FileSubsFrom(s, i + 2)
         ELSE <<s[i]>> \o FileSubsFrom(s, i + 1)

RECURSIVE FileSubsAllFrom(_, _)
FileSubsAllFrom(s, i) ==
    IF i > Len(s) THEN <<>>
    ELSE IF s[i] = "\\" /\ i + 1 <= Len(s) /\ s[i + 1] = ":"
         THEN <<":">> \o FileSubsAllFrom(s, i + 2)
         ELSE <<s[i]>> \o FileSubsAllFrom(s, i + 1)

\* faulty variant: a backslash-colon is replaced whatever precedes it
FileSubsAll(s) == FileSubsAllFrom(s, 1)

FileSubs(s) == FileSubsFrom(s, 1)

\* [node for node in nodes if node]
DropEmpty(segs) == SelectSeq(segs, LAMBDA x : x # <<>>)

RunSeg == <<"r", "u", "n">>

\* faulty variant: "run" is added when the file path is relative
ParseSpecifierRunByFile(s) ==
    LET i == FirstUnescapedColon(s)
    IN IF i = 0
       THEN [using |-> <<RunSeg>>, path |-> FileSubs(s)]
       ELSE LET p0 == SubSeq(s, 1, i - 1)
                p1 == SubSeq(s, i + 1, Len(s))
                u == DropEmpty(Split(Strip(FileSubs(p0), "/"), "/"))
            IN [using |-> IF ~StartsWith(p1, "/") THEN <<RunSeg>> \o u ELSE u,
                path |-> FileSubs(p1)]

\* lines 296-305 of _create_from_yaml: specifier -> (using, path)
ParseSpecifier(s) ==
    LET i == FirstUnescapedColon(s)
    IN IF i = 0
       THEN [using |-> <<RunSeg>>, path |-> FileSubs(s)]
       ELSE LET p0 == SubSeq(s, 1, i - 1)
                p1 == SubSeq(s, i + 1, Len(s))
                nodes == Split(Strip(FileSubs(p0), "/"), "/")
                u == DropEmpty(nodes)
            IN [using |-> IF ~StartsWith(p0, "/") THEN <<RunSeg>> \o u ELSE u,
                path |-> FileSubs(p1)]

-----------------------------------------------------------------------------
(* Tree assembler *)

\* faulty variant: the '/' is appended without looking at the last character
_normalize_path_always(p) ==
    IF p = <<>> THEN <<>> ELSE p \o <<"/">>

\* _normalize_path: None (here the empty string) for an empty path
_normalize_path(p) ==
    IF p = <<>> THEN <<>>
    ELSE IF Last(p) # "/" THEN p \o <<"/">>
    ELSE p

\* _handle_control_tag_using(path, name, using, value) -> [err, val]
_handle_control_tag_using(p, name, using, value) ==
    IF using # <<>>
    THEN [err |-> [kind |-> "ValueError", what |-> "using", path |-> p,
                   name |-> name],
          val |-> <<>>]
    ELSE IF value.kind # "str"
    THEN [err |-> [kind |-> "TypeError"], val |-> <<>>]
    ELSE IF value.s = <<>>                      \* using[0] on ''
    THEN [err |-> [kind |-> "IndexError", msg |-> IndexErrorMsg], val |-> <<>>]
    ELSE LET u1 == IF value.s[1] = "/" THEN Tail(value.s) ELSE value.s
         IN IF u1 = <<>>                        \* using[-1] on ''
            THEN [err |-> [kind |-> "IndexError", msg |-> IndexErrorMsg],
                  val |-> <<>>]
            ELSE [err |-> NoErr,
                  val |-> IF Last(u1) = "/" THEN Front(u1) ELSE u1]

RECURSIVE WrapEach(_, _, _)
\* for name in names: node = cls_node(name, children=[node])
WrapEach(cls, names, node) ==
    IF names = <<>> THEN node
    ELSE WrapEach(cls, Tail(names), NewNode(cls, Head(names), <<node>>))

RECURSIVE WrapPop(_, _, _)
\* while names: node = cls_node(names.pop(), children=[node])
WrapPop(cls, names, node) ==
    IF names = <<>> THEN node
    ELSE WrapPop(cls, Front(names), NewNode(cls, Last(names), <<node>>))

\* faulty variant: the segments are not reversed before wrapping a named node
_apply_using_unreversed(name, cls, using, node) ==
    IF name # <<>>
    THEN WrapEach(cls, Split(using, "/"), node)
    ELSE LET l == Reverse(Split(using, "/"))
             renamed == [node EXCEPT !.name = Last(l)]
         IN NewNode(cls, <<>>, <<WrapPop(cls, Front(l), renamed)>>)

\* _apply_using(name, cls_node, using, node)
_apply_using(name, cls, using, node) ==
    IF name # <<>>
    THEN WrapEach(cls, Reverse(Split(using, "/")), node)
    ELSE LET l == Reverse(Split(using, "/"))
             renamed == [node EXCEPT !.name = Last(l)]
         IN NewNode(cls, <<>>, <<WrapPop(cls, Front(l), renamed)>>)

\* faulty variant: the outer segments are put on innermost first
AddPrefixInsideOut(cls, using, tree) ==
    IF using # <<>>
    THEN LET renamed == [tree EXCEPT !.name = Last(using)]
         IN NewNode(cls, <<>>, <<WrapEach(cls, Front(using), renamed)>>)
    ELSE tree

\* lines 316-322 of _create_from_yaml: the namespace prefix of a file
AddPrefix(cls, using, tree) ==
    IF using # <<>>
    THEN LET renamed == [tree EXCEPT !.name = Last(using)]
         IN NewNode(cls, <<>>, <<WrapPop(cls, Front(using), renamed)>>)
    ELSE tree

RECURSIVE _node_content_from_node(_, _, _, _, _)
RECURSIVE _node_content_from_dict(_, _, _, _, _)
RECURSIVE _tree_node_from_values(_, _, _, _, _)
\* faulty variant: the directive is recorded and applied at once
RecordDirectiveAndApply(node, value) ==
    [node EXCEPT
       !.ctrl = Append(@, [value.k EXCEPT !.value = value.v]),
       !.value = IF value.k.code = YAML_REMOVE_VALUE
                 THEN SelectSeq(@, LAMBDA kv : kv.k # value.v.s) ELSE @,
       !.children = IF value.k.code = YAML_REMOVE_NODE
                    THEN SelectSeq(@, LAMBDA ch : ch.name # value.v.s) ELSE @]

\* the !remove_node / !remove_value branch of _handle_control_tag:
\* value[0].value = value[1]; node.ctrl.append(value[0])
RecordDirective(node, value) ==
    [node EXCEPT !.ctrl = Append(@, [value.k EXCEPT !.value = value.v])]

RECURSIVE _handle_control_tag(_, _, _, _)
RECURSIVE MappingCollect(_, _, _, _, _)
RECURSIVE MappingObjects(_, _, _, _, _)
RECURSIVE mapping_to_tree_loader(_, _, _, _, _)
RECURSIVE mux_loader(_, _, _, _)
RECURSIVE construct_object(_, _, _)
RECURSIVE _create_from_yaml(_, _, _)

\* _handle_control_tag(path, cls_node, node, value); c = [path, cls, file]
\* where c.file is the file whose text holds the tag (not read by the code)
_handle_control_tag(c, node, value, w) ==
    LET code == value.k.code
    IN CASE code = YAML_INCLUDE ->
              LET ypath == IF ~IsAbs(value.v.s)
                           THEN Join(Dirname(c.path), value.v.s)
                           ELSE value.v.s
                  w1 == Emit(w, [ev |-> "include", file |-> c.file,
                                 target |-> value.v.s, from |-> c.path,
                                 ypath |-> ypath, depth |-> w.depth])
              IN IF ypath \notin DOMAIN fs
                 THEN Raise(w1, [kind |-> "ValueError", what |-> "include",
                                 missing |-> ypath, from |-> c.path])
                 ELSE Then(_create_from_yaml(<<"/", ":">> \o ypath, c.cls, w1),
                           LAMBDA r :
                             IF r.val.kind = "none" /\ w.mergeNone = "raises"
                             THEN Raise(Emit(r.w, [ev |-> "node.merge",
                                                   arg |-> r.val.kind]),
                                        [kind |-> "AttributeError"])
                             ELSE Ret(Emit(r.w, [ev |-> "node.merge",
                                                 arg |-> r.val.kind]),
                                      Merge(node, r.val)))
         [] code \in {YAML_REMOVE_NODE, YAML_REMOVE_VALUE} ->
              Ret(w, RecordDirective(node, value))
         [] code = YAML_MUX ->
              Ret(w, [node EXCEPT !.multiplex = TRUE])
         [] code = YAML_FILTER_ONLY ->
              LET new_value == _normalize_path(
                                 IF value.v.kind = "str" THEN value.v.s ELSE <<>>)
              IN IF new_value # <<>>
                 THEN Ret(w, [node EXCEPT !.filters.only = Append(@, new_value)])
                 ELSE Ret(w, node)
         [] code = YAML_FILTER_OUT ->
              LET new_value == _normalize_path(
                                 IF value.v.kind = "str" THEN value.v.s ELSE <<>>)
              IN IF new_value # <<>>
                 THEN Ret(w, [node EXCEPT !.filters.out = Append(@, new_value)])
                 ELSE Ret(w, node)
         [] OTHER -> Ret(w, node)

\* _node_content_from_node(path, node, values, using, cls_node): the loop
\* over values; returns the node as filled and the captured using
_node_content_from_node(c, node, values, using, w) ==
    IF values = <<>> THEN Ret(w, [node |-> node, using |-> using])
    ELSE LET value == Head(values)
         IN IF value.kind = "node"
            THEN _node_content_from_node(c, AddChild(node, value), Tail(values),
                                         using, w)
            ELSE IF value.k.kind = "ctrl"
            THEN IF value.k.code = YAML_USING
                 THEN LET u == _handle_control_tag_using(c.path, node.name, using,
                                                         value.v)
                      IN IF u.err.kind # "none" THEN Raise(w, u.err)
                         ELSE _node_content_from_node(c, node, Tail(values),
                                                      u.val, w)
                 ELSE Then(_handle_control_tag(c, node, value, w),
                           LAMBDA r :
                             _node_content_from_node(c, r.val, Tail(values),
                                                     using, r.w))
            ELSE IF value.v.kind = "dict"
            THEN Then(_tree_node_from_values(c, ToText(value.k), value.v,
                                             using, w),
                      LAMBDA r :
                        _node_content_from_node(c, AddChild(node, r.val),
                                                Tail(values), using, r.w))
            ELSE _node_content_from_node(
                     c, [node EXCEPT !.value = DictPut(@, value.k.s, value.v)],
                     Tail(values), using, w)

\* _node_content_from_dict(path, node, values, using, cls_node), values
\* being the items of the dict
_node_content_from_dict(c, node, values, using, w) ==
    IF values = <<>> THEN Ret(w, [node |-> node, using |-> using])
    ELSE LET key == Head(values).k
             value == Head(values).v
         IN IF key.kind = "ctrl"
            THEN IF key.code = YAML_USING
                 THEN LET u == _handle_control_tag_using(c.path, node.name, using,
                                                         value)
                      IN IF u.err.kind # "none" THEN Raise(w, u.err)
                         ELSE _node_content_from_dict(c, node, Tail(values),
                                                      u.val, w)
                 ELSE Then(_handle_control_tag(c, node, Pair(key, value), w),
                           LAMBDA r :
                             _node_content_from_dict(c, r.val, Tail(values),
                                                     using, r.w))
            ELSE IF value.kind \in {"dict", "none"}
            THEN Then(_tree_node_from_values(c, key.s, value, using, w),
                      LAMBDA r :
                        _node_content_from_dict(c, AddChild(node, r.val),
                                                Tail(values), using, r.w))
            ELSE _node_content_from_dict(
                     c, [node EXCEPT !.value = DictPut(@, key.s, value)],
                     Tail(values), using, w)

\* _tree_node_from_values(path, name, values, using, cls_node)
_tree_node_from_values(c, name, values, using, w) ==
    LET node == NewNode(c.cls, name, <<>>)
    IN IF ~Truthy(values) THEN Ret(w, node)
       ELSE Then(IF values.kind = "dict"
                 THEN _node_content_from_dict(c, node, values.items, <<>>, w)
                 ELSE _node_content_from_node(c, node, values.items, <<>>, w),
                 LAMBDA r :
                   IF r.val.using # <<>>
                   THEN Ret(r.w, _apply_using(name, c.cls, r.val.using,
                                              r.val.node))
                   ELSE Ret(r.w, r.val.node))

-----------------------------------------------------------------------------
(* Tag-aware loader.  A closure clo = [path, using, cls] stands for the   *)
(* pair of constructors (mapping_to_tree_loader, mux_loader) defined by    *)
(* one _create_from_yaml call; w.reg is the closure currently registered   *)
(* on the loader class, which construct_object looks up for every node.    *)

\* faulty variant: a structural value does not make the mapping structural
MappingCollectKeysOnly(entries, _value, looks_like_node, w, file) ==
    IF entries = <<>>
    THEN Ret(w, [value |-> _value, looks_like_node |-> looks_like_node])
    ELSE LET key_node == Head(entries).key
             value_node == Head(entries).val
         IN Then(IF TagStartsWithBang(key_node.tag)
                 THEN construct_object(key_node, w, file)
                 ELSE Ret(w, Str(key_node.s)),
                 LAMBDA rk :
                   Then(construct_object(value_node, rk.w, file),
                        LAMBDA rv :
                          MappingCollect(
                             Tail(entries),
                             Append(_value, Pair(rk.val, rv.val)),
                             looks_like_node \/ rk.val.kind = "ctrl",
                             rv.w, file)))

\* first loop of mapping_to_tree_loader (lines 246-261)
MappingCollect(entries, _value, looks_like_node, w, file) ==
    IF entries = <<>>
    THEN Ret(w, [value |-> _value, looks_like_node |-> looks_like_node])
    ELSE LET key_node == Head(entries).key
             value_node == Head(entries).val
         IN Then(IF TagStartsWithBang(key_node.tag)
                 THEN construct_object(key_node, w, file)
                 ELSE Ret(w, Str(key_node.s)),
                 LAMBDA rk :
                   Then(construct_object(value_node, rk.w, file),
                        LAMBDA rv :
                          MappingCollect(
                             Tail(entries),
                             Append(_value, Pair(rk.val, rv.val)),
                             \/ looks_like_node
                             \/ rk.val.kind = "ctrl"
                             \/ rv.val.kind = "list",
                             rv.w, file)))

\* second loop of mapping_to_tree_loader (lines 266-275)
MappingObjects(clo, _value, objects, w, file) ==
    IF _value = <<>> THEN Ret(w, ListOfNodeObjects(objects))
    ELSE LET name == Head(_value).k
             values == Head(_value).v
         IN IF values.kind = "list" /\ ~clo.bound
            \* `using` is read before line 299/305 of the enclosing call
            \* assigned it
            THEN Raise(w, [kind |-> "NameError"])
            ELSE IF values.kind = "list"
            THEN Then(_tree_node_from_values(
                          [path |-> clo.path, cls |-> clo.cls, file |-> file],
                          ToText(name), values, clo.using, w),
                      LAMBDA r :
                        MappingObjects(clo, Tail(_value), Append(objects, r.val),
                                       r.w, file))
            ELSE IF values.kind = "none"
            THEN MappingObjects(clo, Tail(_value),
                                Append(objects, NewNode(clo.cls, ToText(name), <<>>)),
                                w, file)
            ELSE MappingObjects(clo, Tail(_value),
                                Append(objects, Pair(name, values)), w, file)

\* mapping_to_tree_loader(loader, node, looks_like_node) of closure clo
mapping_to_tree_loader(clo, node, looks_like_node, w, file) ==
    Then(MappingCollect(node.value, <<>>, looks_like_node, w, file),
         LAMBDA r :
           IF ~r.val.looks_like_node
           THEN Ret(r.w, OrderedDict(r.val.value))
           ELSE MappingObjects(clo, r.val.value, <<>>, r.w, file))

\* faulty variant: the mapping is forced structural but not flagged
mux_loader_unflagged(clo, obj, w, file) ==
    IF obj.kind # "scalar"
    THEN mapping_to_tree_loader(clo, obj, TRUE, w, file)
    ELSE Ret(w, ListOfNodeObjects(<<>>))

\* mux_loader(loader, obj) of closure clo
mux_loader(clo, obj, w, file) ==
    Then(IF obj.kind # "scalar"
         THEN mapping_to_tree_loader(clo, obj, TRUE, w, file)
         ELSE Ret(w, ListOfNodeObjects(<<>>)),
         LAMBDA r :
           Ret(r.w, ListOfNodeObjects(
                        Append(r.val.items, Pair(Control(YAML_MUX), NoneVal)))))

\* loader.construct_object(node): the constructor is looked up by tag in
\* the constructors registered on the loader class at this moment
construct_object(node, w, file) ==
    CASE node.tag = "map" -> mapping_to_tree_loader(w.reg, node, FALSE, w, file)
      [] node.tag = "!mux" -> mux_loader(w.reg, node, w, file)
      [] node.tag \in CtrlTags -> Ret(w, Control(CtrlCode(node.tag)))
      [] node.tag = "null" -> Ret(w, NoneVal)
      [] OTHER -> Ret(w, Str(node.s))

-----------------------------------------------------------------------------
(* _create_from_yaml *)

\* open(path): one more handle; the event keeps the number of handles then
\* open and the number of _create_from_yaml calls then active
Open(w, f) == [w EXCEPT !.open = Append(@, f),
                        !.log = Append(@, [ev |-> "open", f |-> f,
                                           nopen |-> Len(w.open) + 1,
                                           depth |-> w.depth])]

\* faulty variant: the handle is not released
CloseNot(w) ==
    [w EXCEPT !.log = Append(@, [ev |-> "close", f |-> Last(w.open)])]

\* the with-block's exit: the innermost handle is released
Close(w) == [w EXCEPT !.open = Front(@),
                      !.log = Append(@, [ev |-> "close", f |-> Last(w.open)])]

\* faulty variant: the handle is released on return but not on an exception
LeaveOpenOnError(r, opened) ==
    [r EXCEPT !.w = [(IF opened /\ ~Failed(r) THEN Close(r.w) ELSE r.w)
                      EXCEPT !.depth = @ - 1]]

\* the with-block's exit and the function's return, on every path
Leave(r, opened) ==
    [r EXCEPT !.w = [(IF opened THEN Close(r.w) ELSE r.w)
                      EXCEPT !.depth = @ - 1]]

\* lines 307-323 of _create_from_yaml: the file is loaded with the
\* constructors registered on the loader class at that moment, then the
\* prefix is added
LoadParsed(parsed, cls, w1) ==
    IF parsed.path \notin DOMAIN fs
    THEN Leave(Raise(w1, [kind |-> "IOError", what |-> "open",
                          file |-> parsed.path]), FALSE)
    ELSE
    LET w2 == Open(w1, parsed.path)
        content == fs[parsed.path]
    IN IF content.kind = "bad"
       THEN Leave(Raise(w2, [kind |-> "YAMLError", msg |-> content.msg,
                             file |-> parsed.path]), TRUE)
       ELSE IF content.kind = "empty"
       THEN Leave(Ret(w2, NoneVal), TRUE)
       ELSE
       Leave(Then(construct_object(content.root, w2, parsed.path),
                  LAMBDA r :
                    Then(_tree_node_from_values(
                             [path |-> parsed.path, cls |-> cls,
                              file |-> parsed.path],
                             <<>>, r.val, parsed.using, r.w),
                         LAMBDA t :
                           Ret(t.w, AddPrefix(cls, parsed.using, t.val)))),
             TRUE)

\* the constructors of lines 244-286 as closures of one call: before lines
\* 296-305 have run, `path` is the specifier and `using` is not assigned;
\* by tells the calls' closures apart while that matters (0 afterwards)
Closure(spec, cls, parsed, by) ==
    IF parsed
    THEN [path |-> ParseSpecifier(spec).path,
          using |-> ParseSpecifier(spec).using, cls |-> cls, bound |-> TRUE,
          by |-> 0]
    ELSE [path |-> spec, using |-> <<>>, cls |-> cls, bound |-> FALSE,
          by |-> by]

\* _create_from_yaml(path, cls_node)
_create_from_yaml(spec, cls, w) ==
    IF w.depth >= MaxDepth
    THEN Raise(w, [kind |-> "RecursionError"])
    ELSE
    \* lines 290-293: copy.copy of a class is the class itself, so the
    \* constructors are set on the one _BaseLoader
    LoadParsed(ParseSpecifier(spec), cls,
               [w EXCEPT !.reg = Closure(spec, cls, TRUE, 0), !.depth = @ + 1])

-----------------------------------------------------------------------------
(* create_from_yaml *)

\* str.split(':', 1)[-1]
AfterFirstColon(s) ==
    LET I == {i \in 1..Len(s) : s[i] = ":"}
    IN IF I = {} THEN s
       ELSE SubSeq(s, 1 + (CHOOSE i \in I : \A j \in I : i <= j), Len(s))

\* get_named_tree_cls(path, klass): the debug node class bound to a path
get_named_tree_cls(p) == [debug |-> TRUE, yaml |-> AfterFirstColon(p)]

MuxTreeNode == [debug |-> FALSE]
MuxTreeNodeDebug == [debug |-> TRUE, yaml |-> <<>>]

MappingValuesPhrase == "mapping values are not allowed in this context"
SpacingHint == "Make sure !tags and colons are separated by a space (eg. !include :)"

\* u'...' in astring.to_text(details)
Contains(msg, phrase) == \E i \in 1..Len(msg) : msg[i] = phrase

\* faulty variant: the hint is appended to every message
WrapErrorAlwaysHint(e, p) ==
    [kind |-> "IOError", what |-> "invalid", errno |-> 2,
     details |-> e.msg \o <<SpacingHint>>, filename |-> p, cause |-> e]

\* lines 373-378: the IOError raised for a caught YAMLError or IndexError e
\* while the loop variable is p
WrapError(e, p) ==
    LET details == IF Contains(e.msg, MappingValuesPhrase)
                   THEN e.msg \o <<SpacingHint>>
                   ELSE e.msg
    IN [kind |-> "IOError", what |-> "invalid", errno |-> 2,
        details |-> details, filename |-> p, cause |-> e]

\* faulty variant: the result is merged whether or not there is one
_merge_always(d, t) == Merge(d, t)

\* the tail of _merge / _merge_debug: if tmp: data.merge(tmp)
_merge(d, t) == IF t.kind # "none" THEN Merge(d, t) ELSE d

\* lines 360-367
Start ==
    /\ pc = "start"
    /\ data' = NewNode(IF debug THEN MuxTreeNodeDebug ELSE MuxTreeNode, <<>>, <<>>)
    /\ path' = NoneVal
    /\ pc' = "loop"
    /\ UNCHANGED <<fs, mergeNone, paths, debug, idx, tmp, err, reg, open, log>>
    /\ UNCHANGED asmVars
    /\ UNCHANGED refVars
    /\ UNCHANGED concVars
    /\ UNCHANGED <<plugVars, dlVars, resVars>>

\* the next iteration of `for path in paths`, up to the return (or raise)
\* of _create_from_yaml inside merge(data, path)
CallCreate ==
    /\ pc = "loop"
    /\ idx < Len(paths)
    /\ \E p \in {paths[idx + 1]} :
       \E r \in {_create_from_yaml(
                    p, IF debug THEN get_named_tree_cls(p) ELSE MuxTreeNode,
                    [reg |-> reg, open |-> open, depth |-> 0,
                     mergeNone |-> mergeNone,
                     log |-> Append(log, [ev |-> "parse", i |-> idx + 1,
                                          merged |-> Len(data.merged)])])} :
          /\ path' = Str(p)
          /\ reg' = r.w.reg
          /\ open' = r.w.open
          /\ log' = r.w.log
          /\ IF Failed(r)
             THEN err' = r.err /\ pc' = "except" /\ tmp' = tmp
             ELSE tmp' = r.val /\ pc' = "merge" /\ err' = err
    /\ UNCHANGED <<fs, mergeNone, paths, debug, idx, data>>
    /\ UNCHANGED asmVars
    /\ UNCHANGED refVars
    /\ UNCHANGED concVars
    /\ UNCHANGED <<plugVars, dlVars, resVars>>

\* the rest of merge(data, path)
DoMerge ==
    /\ pc = "merge"
    /\ data' = _merge(data, tmp)
    /\ log' = IF Len(data'.merged) > Len(data.merged)
              THEN Append(log, [ev |-> "merge", i |-> idx + 1])
              ELSE log
    /\ idx' = idx + 1
    /\ pc' = "loop"
    /\ UNCHANGED <<fs, mergeNone, paths, debug, path, tmp, err, reg, open>>
    /\ UNCHANGED asmVars
    /\ UNCHANGED refVars
    /\ UNCHANGED concVars
    /\ UNCHANGED <<plugVars, dlVars, resVars>>

\* return data
Return ==
    /\ pc = "loop"
    /\ idx = Len(paths)
    /\ pc' = "done"
    /\ UNCHANGED <<fs, mergeNone, paths, debug, idx, path, data, tmp, err, reg, open, log>>
    /\ UNCHANGED asmVars
    /\ UNCHANGED refVars
    /\ UNCHANGED concVars
    /\ UNCHANGED <<plugVars, dlVars, resVars>>

\* faulty variant: the failing file is skipped and the loop goes on
ExceptSkipsFile ==
    /\ pc = "except"
    /\ err' = NoErr
    /\ idx' = idx + 1
    /\ pc' = "loop"
    /\ UNCHANGED <<fs, mergeNone, paths, debug, path, data, tmp, reg, open, log>>
    /\ UNCHANGED asmVars
    /\ UNCHANGED refVars
    /\ UNCHANGED concVars
    /\ UNCHANGED <<plugVars, dlVars, resVars>>

\* the except clause: YAMLError and IndexError become an IOError, any other
\* exception goes to the caller as it is
Except ==
    /\ pc = "except"
    /\ err' = IF err.kind \in {"YAMLError", "IndexError"}
              THEN WrapError(err, path.s)
              ELSE err
    /\ pc' = "failed"
    /\ UNCHANGED <<fs, mergeNone, paths, debug, idx, path, data, tmp, reg, open, log>>
    /\ UNCHANGED asmVars
    /\ UNCHANGED refVars
    /\ UNCHANGED concVars
    /\ UNCHANGED <<plugVars, dlVars, resVars>>

-----------------------------------------------------------------------------
(* Inputs *)

SeqUpTo(S, n) == UNION {[1..k -> S] : k \in 0..n}

SegNames == <<"a", "b", "c", "d", "e">>

RECURSIVE UsingPath(_)
\* "a", "a/b", "a/b/c", ...
UsingPath(k) == IF k = 1 THEN <<SegNames[1]>>
                ELSE UsingPath(k - 1) \o <<"/", SegNames[k]>>

UsingVals == {UsingPath(k) : k \in 1..MaxSegs}
             \cup {<<"/">> \o UsingPath(MaxSegs) \o <<"/">>, <<"/", "/">>}

FilterVals == {<<>>, <<"x">>, <<"x", "/">>}

UsingEntries == {YEnt(YScalar("!using", <<>>), YStr(u)) : u \in UsingVals}

LeafEntries ==
    UsingEntries
    \cup {YEnt(YScalar("!filter-only", <<>>), YStr(f)) : f \in FilterVals}
    \cup {YEnt(YScalar("!filter-out", <<>>), YStr(<<"x">>)),
          YEnt(YScalar("!remove_node", <<>>), YStr(<<"x">>)),
          YEnt(YScalar("!remove_value", <<>>), YStr(<<"x">>)),
          YEnt(YStr(<<"x">>), YStr(<<"v">>)),
          YEnt(YStr(<<"x">>), YStr(<<"w">>)),
          YEnt(YStr(<<"z">>), YStr(<<"w">>)),
          YEnt(YStr(<<"y">>), YNull)}

NestedEntries ==
    {YEnt(YStr(<<"n">>), YMap("map", <<YEnt(YStr(<<"x">>), YStr(<<"v">>))>>)),
     YEnt(YStr(<<"n">>), YMap("map", <<YEnt(YScalar("!using", <<>>), YStr(<<"b">>)),
                                       YEnt(YStr(<<"x">>), YStr(<<"v">>))>>)),
     YEnt(YStr(<<"m">>), YScalar("!mux", <<>>))}

AsmEntries == LeafEntries \cup NestedEntries

AsmDocs == {YMap("map", es) : es \in SeqUpTo(AsmEntries, MaxEntries)}
           \cup {YMap("!mux", es) : es \in SeqUpTo(AsmEntries, 1)}

AsmNames == {<<>>, <<"n">>}

\* the file and closure under which the assembler is exercised
AsmFile == <<"/", "f">>
AsmCls == [debug |-> FALSE]
AsmClo == [path |-> AsmFile, using |-> <<>>, cls |-> AsmCls, bound |-> TRUE,
           by |-> 0]
AsmCtx == [path |-> AsmFile, cls |-> AsmCls, file |-> AsmFile]
AsmWorld == [reg |-> AsmClo, open |-> <<AsmFile>>, log |-> <<>>, depth |-> 1,
             mergeNone |-> "raises"]

NoFiles == [f \in {} |-> NoneVal]
Unset == [kind |-> "unset"]

-----------------------------------------------------------------------------
(* The assembler on one mapping: yaml.load of the mapping, then           *)
(* _tree_node_from_values(path, name, loaded, using, cls_node)             *)

OrchIdle ==
    /\ fs = NoFiles /\ mergeNone = "raises" /\ paths = <<>> /\ debug = FALSE /\ pc = "idle"
    /\ idx = 0 /\ path = NoneVal /\ data = NoneVal /\ tmp = NoneVal
    /\ err = NoErr /\ reg = Unset /\ open = <<>> /\ log = <<>>

RefIdle == rspec = <<>> /\ rpc = "idle" /\ rout = NoneVal

ConcIdle == cspecs = <<>> /\ cdebug = <<>> /\ cpc = <<>> /\ cout = <<>>

PlugIdle == subcommand = <<>> /\ ipc = "idle" /\ iexit = NoneVal /\ isteps = <<>>

DlIdle ==
    /\ dargs = NoneVal /\ dst_hash = NoneVal /\ dpc = "idle"
    /\ hash_file = NoneVal /\ download_failures = 0 /\ downloads = 0
    /\ dret = NoneVal

ResIdle ==
    /\ exts = <<>> /\ epc = "idle" /\ eidx = 0 /\ resolution = <<>>
    /\ eraised = NoneVal

InitAsm ==
    /\ OrchIdle
    /\ RefIdle
    /\ ConcIdle
    /\ PlugIdle /\ DlIdle /\ ResIdle
    /\ ydoc \in AsmDocs
    /\ aname \in AsmNames
    /\ apc = "init"
    /\ loaded = [err |-> NoErr, val |-> NoneVal]
    /\ out = [err |-> NoErr, val |-> NoneVal]

\* yaml.load(stream, loader) on the mapping
Load ==
    /\ apc = "init"
    /\ \E r \in {construct_object(ydoc, AsmWorld, AsmFile)} :
          loaded' = [err |-> r.err, val |-> r.val]
    /\ apc' = "loaded"
    /\ UNCHANGED <<ydoc, aname, out>>
    /\ UNCHANGED orchVars
    /\ UNCHANGED refVars
    /\ UNCHANGED concVars
    /\ UNCHANGED <<plugVars, dlVars, resVars>>

\* _tree_node_from_values on what was loaded
Assemble ==
    /\ apc = "loaded"
    /\ loaded.err.kind = "none"
    /\ \E r \in {_tree_node_from_values(AsmCtx, aname, loaded.val, <<>>,
                                         AsmWorld)} :
          out' = [err |-> r.err, val |-> r.val]
    /\ apc' = "built"
    /\ UNCHANGED <<ydoc, aname, loaded>>
    /\ UNCHANGED orchVars
    /\ UNCHANGED refVars
    /\ UNCHANGED concVars
    /\ UNCHANGED <<plugVars, dlVars, resVars>>

NextAsm == Load \/ Assemble

SpecAsm == InitAsm /\ [][NextAsm]_vars

-----------------------------------------------------------------------------
(* What the claims about the assembler speak of *)

IsUsingEnt(e) == e.key.tag = "!using"
IsCtrlEnt(e) == e.key.tag \in CtrlTags

\* the !using entries of a mapping
TopUsing(doc) == SelectSeq(doc.value, IsUsingEnt)

\* the segments s1..sk as written in a relocation s1/.../sk (with or without
\* one leading and one trailing slash); <<>> for a value that names none
Prefix(k) == [i \in 1..k |-> <<SegNames[i]>>]
WrittenSegs(u) ==
    IF \E k \in 1..MaxSegs : u = UsingPath(k)
    THEN Prefix(CHOOSE k \in 1..MaxSegs : u = UsingPath(k))
    ELSE IF u = <<"/">> \o UsingPath(MaxSegs) \o <<"/">> THEN Prefix(MaxSegs)
    ELSE <<>>

RECURSIVE ChainOver(_, _)
\* the chain segs[1] -> segs[2] -> ... -> leaf of fresh single-child nodes
ChainOver(segs, leaf) ==
    IF segs = <<>> THEN leaf
    ELSE NewNode(AsmCls, Head(segs), <<ChainOver(Tail(segs), leaf)>>)

IsUsingPair(o) == o.kind = "pair" /\ o.k.kind = "ctrl" /\ o.k.code = YAML_USING

\* the node assembled under a name from the loaded entries other than
\* `!using`: the node's own content, not relocated
OwnContent(name) ==
    _tree_node_from_values(
        AsmCtx, name,
        [loaded.val EXCEPT !.items = SelectSeq(@, LAMBDA o : ~IsUsingPair(o))],
        <<>>, AsmWorld).val

OneGoodUsing ==
    /\ Len(TopUsing(ydoc)) = 1
    /\ WrittenSegs(TopUsing(ydoc)[1].val.s) # <<>>

\* C1: on the anonymous root, a relocation s1/.../sk leaves the original
\* node named sk under ancestors s1..s(k-1) in written order, under one new
\* anonymous root ("" -> a -> b{content} for "a/b").
C1_RootRelocation ==
    (apc = "built" /\ aname = <<>> /\ OneGoodUsing)
    => LET segs == WrittenSegs(TopUsing(ydoc)[1].val.s)
           content == OwnContent(<<>>)
       IN /\ out.err.kind = "none"
          /\ out.val = NewNode(AsmCls, <<>>,
                         <<ChainOver(Front(segs),
                                     [content EXCEPT !.name = Last(segs)])>>)

\* C2: a node named n with one `!using: s1/.../sk` among its entries, at
\* any position, is returned as the chain s1 -> ... -> sk -> n, each new
\* ancestor with one child and nothing else, n with all its own content.
C2_NamedRelocation ==
    (apc = "built" /\ aname # <<>> /\ OneGoodUsing)
    => LET segs == WrittenSegs(TopUsing(ydoc)[1].val.s)
           content == OwnContent(aname)
       IN /\ out.err.kind = "none"
          /\ out.val = ChainOver(segs, content)

C2_Witness ==
    /\ apc = "built" /\ aname # <<>> /\ OneGoodUsing
    /\ Len(WrittenSegs(TopUsing(ydoc)[1].val.s)) >= 2
    /\ Len(ydoc.value) >= 3
    /\ ~IsUsingEnt(ydoc.value[1])
    /\ out.err.kind = "none"
    /\ Len(out.val.children) = 1

\* C3: a second `!using` on the same node raises the duplicate-relocation
\* error and the node is not returned; a `!using` on a child does not count
\* against its parent.
C3_DuplicateUsing ==
    apc = "built"
    => /\ Len(TopUsing(ydoc)) >= 2
          => out.err.kind = "ValueError" /\ out.err.what = "using"
       /\ Len(TopUsing(ydoc)) <= 1
          => out.err.kind = "none"

\* the wrappers a captured relocation puts above the node: one per segment
RECURSIVE BaseNode(_, _)
BaseNode(node, d) == IF d = 0 THEN node ELSE BaseNode(node.children[1], d - 1)

RelocationDepth(doc) ==
    IF TopUsing(doc) = <<>> THEN 0
    ELSE Len(WrittenSegs(Last(TopUsing(doc)).val.s))

\* the filter values of a mapping's entries of one tag, each with one '/'
\* at its end, the empty ones left out
ExpectedFilters(doc, tag) ==
    LET es == SelectSeq(doc.value,
                        LAMBDA e : e.key.tag = tag /\ e.val.s # <<>>)
    IN [i \in 1..Len(es) |-> IF Last(es[i].val.s) = "/" THEN es[i].val.s
                             ELSE es[i].val.s \o <<"/">>]

\* C5: every non-empty `!filter-only` (`!filter-out`) value is appended,
\* ending in exactly the '/' it had or one added, to the node's filters.only
\* (filters.out) and to no other list; an empty value appends nothing;
\* normalizing twice is normalizing once.
C5_FilterNormalized ==
    (apc = "built" /\ out.err.kind = "none")
    => LET base == BaseNode(out.val, RelocationDepth(ydoc))
       IN /\ base.filters.only = ExpectedFilters(ydoc, "!filter-only")
          /\ base.filters.out = ExpectedFilters(ydoc, "!filter-out")
          /\ \A i \in 1..Len(ydoc.value) :
               ydoc.value[i].key.tag \in {"!filter-only", "!filter-out"}
               => LET v == ydoc.value[i].val.s
                  IN _normalize_path(_normalize_path(v)) = _normalize_path(v)

C5_Witness ==
    /\ apc = "built" /\ out.err.kind = "none"
    /\ Len(ExpectedFilters(ydoc, "!filter-only")) = 2
    /\ Len(ExpectedFilters(ydoc, "!filter-out")) = 1
    /\ BaseNode(out.val, RelocationDepth(ydoc)).filters.only[1] = <<"x", "/">>
    /\ \E i \in 1..Len(ydoc.value) :
         ydoc.value[i] = YEnt(YScalar("!filter-only", <<>>), YStr(<<"x">>))

RECURSIVE IsStructuralY(_)
\* a YAML value the loader resolves to structure: tagged !mux, or a mapping
\* with a directive key or a structural value
IsStructuralY(y) ==
    \/ y.tag = "!mux"
    \/ /\ y.kind = "mapping"
       /\ \E i \in 1..Len(y.value) :
            IsCtrlEnt(y.value[i]) \/ IsStructuralY(y.value[i].val)

\* a plain mapping: no directive key and no structural value
IsPlainDoc(doc) == doc.kind = "mapping" /\ ~IsStructuralY(doc)

\* the keys of a mapping in document order, each once
RECURSIVE KeysOf(_, _)
KeysOf(entries, seen) ==
    IF entries = <<>> THEN seen
    ELSE KeysOf(Tail(entries),
                IF \E i \in 1..Len(seen) : seen[i] = Head(entries).key.s
                THEN seen ELSE Append(seen, Head(entries).key.s))

\* the value a key has in a mapping (its last entry's)
ValueOf(entries, k) ==
    LET I == {i \in 1..Len(entries) : entries[i].key.s = k}
        v == entries[CHOOSE i \in I : \A j \in I : j <= i].val
    IN IF v.tag = "null" THEN NoneVal ELSE Str(v.s)

\* the value-store a mapping's keys and values make
StoreOf(entries) ==
    LET ks == KeysOf(entries, <<>>)
    IN [i \in 1..Len(ks) |-> [k |-> ks[i], v |-> ValueOf(entries, ks[i])]]

\* C6 as stated: every plain mapping gives a node with no child and a
\* value-store holding every key with its value, in document order.
C6_PlainMapping ==
    (apc = "built" /\ IsPlainDoc(ydoc))
    => /\ out.err.kind = "none"
       /\ out.val.children = <<>>
       /\ out.val.value = StoreOf(ydoc.value)

AllScalarValues(doc) ==
    \A i \in 1..Len(doc.value) :
        doc.value[i].val.kind = "scalar" /\ doc.value[i].val.tag = "str"

\* C6 amended: every plain mapping whose values are all non-null scalars
\* gives a node with no child and a value-store holding every key with its
\* value, in document order.
C6_PlainScalarMapping ==
    (apc = "built" /\ IsPlainDoc(ydoc) /\ AllScalarValues(ydoc))
    => /\ out.err.kind = "none"
       /\ out.val.children = <<>>
       /\ out.val.value = StoreOf(ydoc.value)

C6_Witness ==
    /\ apc = "built" /\ IsPlainDoc(ydoc) /\ AllScalarValues(ydoc)
    /\ Len(ydoc.value) >= 3
    /\ ydoc.value[1].key.s = <<"z">>
    /\ ydoc.value[2].key.s = <<"x">>
    /\ ydoc.value[3].key.s = <<"x">>
    /\ ydoc.value[2].val # ydoc.value[3].val
    /\ Len(out.val.value) = 2

RECURSIVE OnSpine(_, _)
\* node, or the node under its chain of single-child ancestors, is named name
OnSpine(node, name) ==
    \/ node.name = name
    \/ Len(node.children) = 1 /\ OnSpine(node.children[1], name)

\* the emitted object o is what the mapping entry e became
StandsFor(o, e) ==
    IF IsCtrlEnt(e)
    THEN /\ o.kind = "pair" /\ o.k.kind = "ctrl"
         /\ o.k.code = CtrlCode(e.key.tag)
         /\ o.v = Str(e.val.s)
    ELSE IF o.kind = "pair"
    THEN /\ o.k = Str(e.key.s)
         /\ e.val.kind = "scalar" => o.v = Str(e.val.s)
    ELSE OnSpine(o, e.key.s)

\* C7: the loader returns the structural form exactly for a mapping with a
\* directive key, a structural value or the !mux tag (one such entry is
\* enough), and the emitted sequence keeps the entries in document order.
C7_StructuralIff ==
    (apc \in {"loaded", "built"})
    => /\ loaded.err.kind = "none"
       /\ loaded.val.kind = "list" <=> IsStructuralY(ydoc)
       /\ loaded.val.kind = "dict" <=> ~IsStructuralY(ydoc)
       /\ loaded.val.kind = "list"
          => /\ Len(loaded.val.items) =
                  Len(ydoc.value) + (IF ydoc.tag = "!mux" THEN 1 ELSE 0)
             /\ \A i \in 1..Len(ydoc.value) :
                  StandsFor(loaded.val.items[i], ydoc.value[i])

C7_Witness ==
    /\ apc = "loaded"
    /\ ydoc.tag = "map"
    /\ Len(ydoc.value) = 3
    /\ ~IsCtrlEnt(ydoc.value[1]) /\ ~IsStructuralY(ydoc.value[1].val)
    /\ ~IsCtrlEnt(ydoc.value[2]) /\ IsStructuralY(ydoc.value[2].val)
    /\ ~IsCtrlEnt(ydoc.value[3]) /\ ~IsStructuralY(ydoc.value[3].val)
    /\ loaded.val.kind = "list"
    /\ loaded.val.items[1].kind = "pair"
    /\ loaded.val.items[2].kind = "node"

-----------------------------------------------------------------------------
(* Files for create_from_yaml *)

FO == <<"/", "o">>
FP == <<"/", "p">>
FI == <<"/", "s", "/", "i">>
FM == <<"/", "m">>
FSM == <<"/", "s", "/", "m">>

Inc(t) == YEnt(YScalar("!include", <<>>), YStr(t))
XV == YEnt(YStr(<<"x">>), YStr(<<"v">>))

DocPlain == [kind |-> "doc", root |-> YMap("map", <<XV>>)]
DocInc(t) == [kind |-> "doc", root |-> YMap("map", <<XV, Inc(t)>>)]
\* two includes, each two mappings below the top
DocNested(t1, t2) ==
    [kind |-> "doc",
     root |-> YMap("map",
        <<YEnt(YStr(<<"h">>), YMap("map", <<YEnt(YStr(<<"a">>), YMap("map", <<Inc(t1)>>))>>)),
          YEnt(YStr(<<"k">>), YMap("map", <<YEnt(YStr(<<"b">>), YMap("map", <<Inc(t2)>>))>>))>>)]
DocTwoUsing ==
    [kind |-> "doc",
     root |-> YMap("map", <<YEnt(YScalar("!using", <<>>), YStr(<<"a">>)),
                            YEnt(YScalar("!using", <<>>), YStr(<<"b">>))>>)]
Empty == [kind |-> "empty"]
Missing == [kind |-> "missing"]
Bad(msg) == [kind |-> "bad", msg |-> msg]

MsgMappingValues == <<"while scanning", MappingValuesPhrase, "line 2">>
MsgOther == <<"could not find expected ':'">>

Choices ==
    [o |-> {DocPlain, DocInc(<<"s", "/", "i">>), DocInc(FI), DocInc(<<"q">>),
            DocNested(<<"s", "/", "i">>, <<"m">>), Empty, Bad(MsgMappingValues)},
     i |-> {Missing, Empty, Bad(MsgMappingValues), Bad(MsgOther), DocPlain,
            DocInc(<<"m">>)},
     m |-> {Missing, DocPlain},
     sm |-> {Missing, DocPlain, DocInc(FM)},
     p |-> {Empty, DocPlain, Bad(MsgOther), DocTwoUsing}]

\* the file system holding the given contents, missing files left out
MakeFs(o, i, m, sm, p) ==
    LET all == [f \in {FO, FI, FM, FSM, FP} |->
                  CASE f = FO -> o [] f = FI -> i [] f = FM -> m
                    [] f = FSM -> sm [] f = FP -> p]
    IN [f \in {g \in DOMAIN all : all[g].kind # "missing"} |-> all[f]]

FileSystems ==
    {MakeFs(o, i, m, sm, p) :
        o \in Choices.o, i \in Choices.i, m \in Choices.m,
        sm \in Choices.sm, p \in Choices.p}

\* the specifiers given on the command line
TopSpecs == {FO, FP, <<"n", ":">> \o FP}

AsmIdle ==
    /\ ydoc = NoneVal /\ aname = <<>> /\ apc = "idle"
    /\ loaded = [err |-> NoErr, val |-> NoneVal]
    /\ out = [err |-> NoErr, val |-> NoneVal]

Init ==
    /\ fs \in FileSystems
    /\ mergeNone \in (IF FI \in DOMAIN fs /\ fs[FI].kind = "empty"
                      THEN {"raises", "returns"} ELSE {"raises"})
    /\ paths \in SeqUpTo(TopSpecs, MaxPaths)
    /\ debug \in BOOLEAN
    /\ pc = "start"
    /\ idx = 0
    /\ path = NoneVal
    /\ data = NoneVal
    /\ tmp = NoneVal
    /\ err = NoErr
    /\ reg = Unset
    /\ open = <<>>
    /\ log = <<>>
    /\ AsmIdle
    /\ RefIdle
    /\ ConcIdle
    /\ PlugIdle /\ DlIdle /\ ResIdle

Next == Start \/ CallCreate \/ DoMerge \/ Return \/ Except

Spec == Init /\ [][Next]_vars

-----------------------------------------------------------------------------
(* What the claims about create_from_yaml speak of *)

\* the last `!include` tag handled
LastInclude ==
    LET I == {j \in 1..Len(log) : log[j].ev = "include"}
    IN CHOOSE j \in I : \A k \in I : k <= j

IncludeNotFound ==
    /\ pc \in {"except", "failed"}
    /\ err.kind = "ValueError" /\ err.what = "include"

\* C4: the error for a missing `!include` target names the resolved target
\* (the target as written, taken relative to the directory of the file that
\* holds the tag unless absolute) and that including file; it is raised with
\* no file opened for the target and nothing merged after the tag was read.
C4_IncludeNotFound ==
    IncludeNotFound
    => LET e == log[LastInclude]
       IN /\ err.missing = (IF IsAbs(e.target) THEN e.target
                            ELSE Join(Dirname(e.file), e.target))
          /\ err.missing \notin DOMAIN fs
          /\ err.from = e.file
          /\ \A j \in 1..Len(log) : log[j].ev = "open" => log[j].f # err.missing
          /\ \A j \in (LastInclude + 1)..Len(log) : log[j].ev = "close"

\* the document of a specifier's file is not empty
NonEmptyDoc(sp) ==
    LET f == ParseSpecifier(sp).path
    IN f \in DOMAIN fs /\ fs[f].kind = "doc"

\* the paths among the first n whose document is not empty, in order
NonEmptyUpTo(n) == SelectSeq([i \in 1..n |-> i], LAMBDA i : NonEmptyDoc(paths[i]))

MergeEvents == SelectSeq(log, LAMBDA e : e.ev = "merge")

\* C8: the accumulator is merged into once for every input with a non-empty
\* document and for no other, in the order of the paths list, and when the
\* parse of a file starts the merges of all files before it are done.
C8_MergeOrder ==
    (pc \in {"loop", "merge", "except", "failed", "done"})
    => /\ Len(data.merged) = Len(NonEmptyUpTo(idx))
       /\ [j \in 1..Len(MergeEvents) |-> MergeEvents[j].i] = NonEmptyUpTo(idx)
       /\ \A j \in 1..Len(log) :
            log[j].ev = "parse"
            => log[j].merged = Len(NonEmptyUpTo(log[j].i - 1))
       /\ pc = "done" => idx = Len(paths)

C8_Witness ==
    /\ pc = "done"
    /\ Len(paths) = 2 /\ paths[1] # paths[2]
    /\ Len(data.merged) = 2
    /\ data.merged[1] # data.merged[2]

Wrapped == pc = "failed" /\ err.kind = "IOError" /\ err.what = "invalid"

\* C9: a parser failure reaches the caller only as the error whose message
\* starts with the parser's message, and the spacing hint follows it exactly
\* when the parser's message has the mapping-values phrase.
C9_ParserErrorMessage ==
    /\ pc = "failed" => err.kind # "YAMLError"
    /\ (Wrapped /\ err.cause.kind = "YAMLError")
       => /\ SubSeq(err.details, 1, Len(err.cause.msg)) = err.cause.msg
          /\ Contains(err.details, SpacingHint)
             <=> Contains(err.cause.msg, MappingValuesPhrase)

C9_Witness ==
    /\ Wrapped /\ err.cause.kind = "YAMLError"
    /\ Contains(err.cause.msg, MappingValuesPhrase)
    /\ err.details = err.cause.msg \o <<SpacingHint>>

\* C10: the error raised for a document-syntax failure names the file whose
\* text has the syntax error, be it listed in paths or reached by `!include`.
C10_ErrorNamesOffendingFile ==
    (Wrapped /\ err.cause.kind = "YAMLError")
    => ParseSpecifier(err.filename).path = err.cause.file

-----------------------------------------------------------------------------
(* The file reference parser on one specifier: lines 296-305 of            *)
(* _create_from_yaml applied to a string, or to the specifier made from a  *)
(* file path by writing each of its ':' as backslash-colon                 *)

RefChars == {"a", "/", ":", "\\"}
RefStrings == SeqUpTo(RefChars, MaxSpecLen)

RECURSIVE EscapeColons(_)
\* a file path written as a specifier: every ':' becomes backslash-colon
EscapeColons(s) ==
    IF s = <<>> THEN <<>>
    ELSE (IF Head(s) = ":" THEN <<"\\", ":">> ELSE <<Head(s)>>)
         \o EscapeColons(Tail(s))

InitRef ==
    /\ OrchIdle
    /\ AsmIdle
    /\ ConcIdle
    /\ PlugIdle /\ DlIdle /\ ResIdle
    /\ rspec \in RefStrings
    /\ rpc = "init"
    /\ rout = NoneVal

\* the parser on the string as the specifier
ParseRef ==
    /\ rpc = "init"
    /\ rout' = ParseSpecifier(rspec)
    /\ rpc' = "parsed"
    /\ UNCHANGED rspec
    /\ UNCHANGED orchVars
    /\ UNCHANGED asmVars
    /\ UNCHANGED concVars
    /\ UNCHANGED <<plugVars, dlVars, resVars>>

\* the parser on the string taken as a file path and escaped
ParseEscaped ==
    /\ rpc = "init"
    /\ rout' = ParseSpecifier(EscapeColons(rspec))
    /\ rpc' = "escaped"
    /\ UNCHANGED rspec
    /\ UNCHANGED orchVars
    /\ UNCHANGED asmVars
    /\ UNCHANGED concVars
    /\ UNCHANGED <<plugVars, dlVars, resVars>>

NextRef == ParseRef \/ ParseEscaped

SpecRef == InitRef /\ [][NextRef]_vars

-----------------------------------------------------------------------------
(* What the claims about the reference parser speak of *)

\* the ':' at position i of s is unescaped: no backslash stands before it
UnescapedAt(s, i) == s[i] = ":" /\ (i = 1 \/ s[i - 1] # "\\")
HasUnescaped(s) == \E i \in 1..Len(s) : UnescapedAt(s, i)
SplitAt(s) ==
    CHOOSE i \in 1..Len(s) :
        UnescapedAt(s, i) /\ \A j \in 1..(i - 1) : ~UnescapedAt(s, j)
PrefixOf(s) == SubSeq(s, 1, SplitAt(s) - 1)
FileOf(s) == SubSeq(s, SplitAt(s) + 1, Len(s))

\* position i of s starts a backslash-colon
EscapeAt(s, i) == s[i] = "\\" /\ i < Len(s) /\ s[i + 1] = ":"
\* ... whose backslash does not itself follow a backslash
LoneEscapeAt(s, i) == EscapeAt(s, i) /\ (i = 1 \/ s[i - 1] # "\\")

Keep(s, drop) ==
    LET at[i \in 0..Len(s)] ==
            IF i = 0 THEN <<>>
            ELSE IF i \in drop THEN at[i - 1] ELSE Append(at[i - 1], s[i])
    IN at[Len(s)]

\* s with the backslash of every backslash-colon taken out
EscapesRemoved(s) == Keep(s, {i \in 1..Len(s) : EscapeAt(s, i)})
\* s with the backslash of every lone backslash-colon taken out
LoneEscapesRemoved(s) == Keep(s, {i \in 1..Len(s) : LoneEscapeAt(s, i)})

\* C11 as stated: with no unescaped ':' the path is the whole string with
\* its escapes removed and the namespace is ["run"]; otherwise the split is
\* at the first unescaped ':' and the path is all that follows it, its
\* escapes removed.
C11_SplitAtFirst ==
    rpc = "parsed"
    => IF ~HasUnescaped(rspec)
       THEN rout = [using |-> <<RunSeg>>, path |-> EscapesRemoved(rspec)]
       ELSE rout.path = EscapesRemoved(FileOf(rspec))

\* C11 amended: the same, an escape being a backslash-colon whose backslash
\* does not follow another backslash (a ':' after two backslashes is neither
\* split at nor unescaped).
C11_SplitAtFirstLone ==
    rpc = "parsed"
    => IF ~HasUnescaped(rspec)
       THEN rout = [using |-> <<RunSeg>>, path |-> LoneEscapesRemoved(rspec)]
       ELSE rout.path = LoneEscapesRemoved(FileOf(rspec))

C11_Witness ==
    /\ rpc = "parsed"
    /\ rspec = <<"a", ":", "\\", ":", ":">>
    /\ rout.path = <<":", ":">>

\* the segments of a prefix: split on '/', the empty ones dropped
Segments(pre) == DropEmpty(Split(pre, "/"))

\* C12 as stated: the namespace of prefix:path is the prefix split on '/'
\* without its empty segments, after an added "run" whenever the path part
\* is not absolute.
C12_RunWhenFileRelative ==
    (rpc = "parsed" /\ HasUnescaped(rspec))
    => rout.using = (IF IsAbs(FileOf(rspec)) THEN <<>> ELSE <<RunSeg>>)
                    \o Segments(PrefixOf(rspec))

\* C12 amended: the namespace of prefix:path is the prefix, its lone
\* escapes removed, split on '/' without its empty segments, after an
\* added "run" whenever the prefix does not start with '/'.
C12_RunWhenPrefixRelative ==
    (rpc = "parsed" /\ HasUnescaped(rspec))
    => rout.using = (IF PrefixOf(rspec) # <<>> /\ Head(PrefixOf(rspec)) = "/"
                     THEN <<>> ELSE <<RunSeg>>)
                    \o Segments(LoneEscapesRemoved(PrefixOf(rspec)))

C12_Witness ==
    /\ rpc = "parsed"
    /\ rspec = <<"/", "a", ":", "a">>
    /\ rout = [using |-> <<<<"a">>>>, path |-> <<"a">>]

HasEscape(s) == \E i \in 1..Len(s) : EscapeAt(s, i)

\* C13 as stated: the parsed path has no backslash-colon left, and a file
\* path with a ':' written with each ':' escaped parses back to itself
\* with namespace ["run"].
C13_Unescape ==
    /\ rpc = "parsed" => ~HasEscape(rout.path)
    /\ (rpc = "escaped" /\ \E i \in 1..Len(rspec) : rspec[i] = ":")
       => rout = [using |-> <<RunSeg>>, path |-> rspec]

\* C13 amended: every backslash-colon of the file-path part whose
\* backslash does not follow another backslash is replaced by ':', so a
\* backslash-colon is left in the parsed path only after a backslash; a
\* file path with a ':', none of them right after a backslash, written with
\* each ':' escaped parses back to itself with namespace ["run"].
C13_UnescapeLone ==
    /\ rpc = "parsed"
       => /\ rout.path = LoneEscapesRemoved(IF HasUnescaped(rspec)
                                            THEN FileOf(rspec) ELSE rspec)
          /\ \A i \in 1..Len(rout.path) :
               EscapeAt(rout.path, i) => i > 1 /\ rout.path[i - 1] = "\\"
    /\ (/\ rpc = "escaped"
        /\ \E i \in 1..Len(rspec) : rspec[i] = ":"
        /\ ~HasEscape(rspec))
       => rout = [using |-> <<RunSeg>>, path |-> rspec]

C13_Witness ==
    /\ rpc = "escaped"
    /\ rspec = <<"a", ":", "/", ":", "a">>
    /\ rout = [using |-> <<RunSeg>>, path |-> rspec]

-----------------------------------------------------------------------------
(* More of what the claims about create_from_yaml speak of *)

Failing == pc \in {"except", "failed"}

\* C14: when file i fails, an exception and no tree goes to the caller, the
\* next step is FAILED with nothing parsed or merged on the way, and the
\* files after i are never parsed or merged.
C14_FailStraight ==
    /\ [](Failing
          => /\ err.kind # "none"
             /\ idx < Len(paths)
             /\ \A j \in 1..Len(log) :
                  /\ log[j].ev = "parse" => log[j].i <= idx + 1
                  /\ log[j].ev = "merge" => log[j].i <= idx)
    /\ [][Failing
          => /\ pc' = "failed"
             /\ UNCHANGED <<idx, data, tmp, log, open>>]_vars
    /\ [][pc' = "done" => ~Failing /\ pc = "loop" /\ idx = Len(paths)]_vars

C14_Witness ==
    /\ pc = "failed"
    /\ Len(paths) = 2
    /\ idx = 0
    /\ NonEmptyDoc(paths[2])
    /\ data.merged = <<>>

\* the document of a specifier's file is empty
EmptyDoc(sp) ==
    LET f == ParseSpecifier(sp).path
    IN f \in DOMAIN fs /\ fs[f].kind = "empty"

\* C15: an input with an empty document gives no subtree and no error, the
\* step after it leaves the accumulator as it was, and when every input is
\* such (or there is none) the assembly never fails and DONE holds the
\* empty accumulator root.
C15_EmptySkipped ==
    /\ []((pc \in {"merge", "except"} /\ EmptyDoc(paths[idx + 1]))
          => pc = "merge" /\ tmp = NoneVal /\ err = NoErr)
    /\ [][(pc = "merge" /\ EmptyDoc(paths[idx + 1]))
          => data' = data /\ pc' = "loop" /\ idx' = idx + 1
             /\ UNCHANGED <<err, log>>]_vars
    /\ []((\A i \in 1..Len(paths) : EmptyDoc(paths[i]))
          => /\ ~Failing
             /\ pc = "done"
                => data = NewNode(IF debug THEN MuxTreeNodeDebug
                                  ELSE MuxTreeNode, <<>>, <<>>))

C15_Witness ==
    /\ pc = "done"
    /\ Len(paths) = 2
    /\ EmptyDoc(paths[1]) /\ NonEmptyDoc(paths[2])
    /\ Len(data.merged) = 1

OpenEvents == SelectSeq(log, LAMBDA e : e.ev = "open")
CloseEvents == SelectSeq(log, LAMBDA e : e.ev = "close")

C17_AllClosed ==
    /\ open = <<>>
    /\ Len(OpenEvents) = Len(CloseEvents)
    /\ \A j \in 1..Len(log) :
         log[j].ev = "open"
         => \E k \in (j + 1)..Len(log) : log[k].ev = "close" /\ log[k].f = log[j].f

C17_Witness ==
    /\ pc = "failed"
    /\ IncludeNotFound
    /\ Len(OpenEvents) = 2 /\ OpenEvents[2].nopen = 2
    /\ open = <<>>

IncludeEvents == SelectSeq(log, LAMBDA e : e.ev = "include")

\* C19: the file an `!include` tag names is its target as written when
\* absolute, and otherwise the target joined to the directory of the file
\* whose text holds the tag, for every tag handled in a load.
C19_IncludeRelativeToOwnFile ==
    \A j \in 1..Len(IncludeEvents) :
        LET e == IncludeEvents[j]
        IN e.ypath = (IF IsAbs(e.target) THEN e.target
                      ELSE Join(Dirname(e.file), e.target))

-----------------------------------------------------------------------------
(* Removal directives *)

IsRemoveEnt(e) == e.key.tag \in {"!remove_node", "!remove_value"}

IsRemovePair(o) ==
    o.kind = "pair" /\ o.k.kind = "ctrl"
    /\ o.k.code \in {YAML_REMOVE_NODE, YAML_REMOVE_VALUE}

\* an entry of a node-like mapping that becomes a child: its value is a
\* mapping, tagged !mux, or null
IsChildEnt(e) ==
    /\ ~IsCtrlEnt(e)
    /\ (e.val.kind = "mapping" \/ IsStructuralY(e.val) \/ e.val.tag = "null")

\* the node assembled from the loaded entries other than `!using` and the
\* removal directives
ContentWithoutRemovals ==
    _tree_node_from_values(
        AsmCtx, aname,
        [loaded.val EXCEPT !.items =
           SelectSeq(@, LAMBDA o : ~IsUsingPair(o) /\ ~IsRemovePair(o))],
        <<>>, AsmWorld).val

\* the directives the removal entries of a mapping stand for, in document
\* order, each carrying its target name
ExpectedCtrl(doc) ==
    LET es == SelectSeq(doc.value, IsRemoveEnt)
    IN [i \in 1..Len(es) |->
          [kind |-> "ctrl",
           code |-> IF es[i].key.tag = "!remove_node"
                    THEN YAML_REMOVE_NODE ELSE YAML_REMOVE_VALUE,
           value |-> Str(es[i].val.s)]]

\* C20: `!remove_node` and `!remove_value` are only recorded: the node's
\* ctrl list is the directives in document order, each with its value set
\* to the target name; the node's children, value-store, multiplex flag and
\* filters are what they are without the directives: one child for every
\* mapping, !mux or null entry and every other key in the value-store.
C20_RemoveOnlyRecorded ==
    (apc = "built" /\ out.err.kind = "none" /\ loaded.val.kind = "list"
     /\ ydoc.tag = "map")
    => LET base == BaseNode(out.val, RelocationDepth(ydoc))
           plain == ContentWithoutRemovals
       IN /\ base.ctrl = ExpectedCtrl(ydoc)
          /\ base.children = plain.children
          /\ base.value = plain.value
          /\ base.multiplex = plain.multiplex
          /\ base.filters = plain.filters
          /\ plain.ctrl = <<>>
          /\ Len(base.children) = Len(SelectSeq(ydoc.value, IsChildEnt))
          /\ \A i \in 1..Len(ydoc.value) :
               LET e == ydoc.value[i]
               IN (~IsCtrlEnt(e) /\ ~IsChildEnt(e))
                  => \E j \in 1..Len(base.value) : base.value[j].k = e.key.s

C20_Witness ==
    /\ apc = "built" /\ out.err.kind = "none"
    /\ ydoc.value = <<YEnt(YStr(<<"x">>), YStr(<<"v">>)),
                      YEnt(YScalar("!remove_value", <<>>), YStr(<<"x">>)),
                      YEnt(YScalar("!remove_node", <<>>), YStr(<<"x">>))>>
    /\ Len(out.val.ctrl) = 2
    /\ out.val.ctrl[1].code = YAML_REMOVE_VALUE
    /\ out.val.ctrl[2].value = Str(<<"x">>)
    /\ out.val.value = <<[k |-> <<"x">>, v |-> Str(<<"v">>)]>>

-----------------------------------------------------------------------------
(* Two _create_from_yaml calls in two threads, one loader class *)

Threads == {1, 2}

\* one include two mappings below the top
DocNestedOne(t) ==
    [kind |-> "doc",
     root |-> YMap("map",
        <<YEnt(YStr(<<"h">>), YMap("map", <<YEnt(YStr(<<"a">>), YMap("map", <<Inc(t)>>))>>))>>)]

ConcSpecs == {FO, FI, <<"n", ":">> \o FP}

ConcFileSystems ==
    {MakeFs(o, DocPlain, DocPlain, Missing, pp) :
        o \in {DocPlain, DocNestedOne(<<"s", "/", "i">>),
               DocNested(<<"s", "/", "i">>, <<"m">>)},
        pp \in {DocPlain, DocNestedOne(<<"m">>)}}

\* the node class a thread's create_from_yaml passes (lines 353-358)
ClsOf(t) == IF cdebug[t] THEN get_named_tree_cls(cspecs[t]) ELSE MuxTreeNode

Outcome(r) == [err |-> r.err, val |-> r.val]

InitConc ==
    /\ fs \in ConcFileSystems
    /\ mergeNone = "raises"
    /\ paths = <<>> /\ debug = FALSE /\ pc = "idle"
    /\ idx = 0 /\ path = NoneVal /\ data = NoneVal /\ tmp = NoneVal
    /\ err = NoErr /\ reg = Unset /\ open = <<>> /\ log = <<>>
    /\ AsmIdle
    /\ RefIdle
    /\ cspecs \in [Threads -> ConcSpecs]
    /\ cdebug \in [Threads -> BOOLEAN]
    /\ cpc = [t \in Threads |-> "start"]
    /\ cout = [t \in Threads |-> [err |-> NoErr, val |-> NoneVal]]
    /\ PlugIdle /\ DlIdle /\ ResIdle

\* lines 290-293: the thread's constructors are set on the loader class
Register(t) ==
    /\ cpc[t] = "start"
    /\ reg' = Closure(cspecs[t], ClsOf(t), FALSE, t)
    /\ cpc' = [cpc EXCEPT ![t] = "registered"]
    /\ UNCHANGED <<fs, mergeNone, paths, debug, pc, idx, path, data, tmp, err, open, log>>
    /\ UNCHANGED <<cspecs, cdebug, cout>>
    /\ UNCHANGED <<plugVars, dlVars, resVars>>
    /\ UNCHANGED asmVars
    /\ UNCHANGED refVars

\* lines 296-305: `path` and `using` of the thread's call are assigned, which
\* the thread's constructors see if they are still the registered ones
ParseOwn(t) ==
    /\ cpc[t] = "registered"
    /\ reg' = IF reg = Closure(cspecs[t], ClsOf(t), FALSE, t)
              THEN Closure(cspecs[t], ClsOf(t), TRUE, t)
              ELSE reg
    /\ cpc' = [cpc EXCEPT ![t] = "parsed"]
    /\ UNCHANGED <<fs, mergeNone, paths, debug, pc, idx, path, data, tmp, err, open, log>>
    /\ UNCHANGED <<cspecs, cdebug, cout>>
    /\ UNCHANGED <<plugVars, dlVars, resVars>>
    /\ UNCHANGED asmVars
    /\ UNCHANGED refVars

\* lines 307-323: the thread loads its file with whatever constructors the
\* loader class holds now
LoadOwn(t) ==
    /\ cpc[t] = "parsed"
    /\ \E r \in {LoadParsed(ParseSpecifier(cspecs[t]), ClsOf(t),
                             [reg |-> reg, open |-> <<>>, log |-> <<>>,
                              depth |-> 1, mergeNone |-> mergeNone])} :
          /\ cout' = [cout EXCEPT ![t] = Outcome(r)]
          /\ reg' = r.w.reg
    /\ cpc' = [cpc EXCEPT ![t] = "done"]
    /\ UNCHANGED <<fs, mergeNone, paths, debug, pc, idx, path, data, tmp, err, open, log>>
    /\ UNCHANGED <<cspecs, cdebug>>
    /\ UNCHANGED <<plugVars, dlVars, resVars>>
    /\ UNCHANGED asmVars
    /\ UNCHANGED refVars

NextConc == \E t \in Threads : Register(t) \/ ParseOwn(t) \/ LoadOwn(t)

SpecConc == InitConc /\ [][NextConc]_vars

\* what the thread's call returns or raises when no other call runs
Alone(t) ==
    Outcome(_create_from_yaml(cspecs[t], ClsOf(t),
                              [reg |-> Unset, open |-> <<>>, log |-> <<>>,
                               depth |-> 0, mergeNone |-> mergeNone]))

\* C18: each of two loads whose steps interleave returns the tree, or
\* raises the error, that it returns or raises when run alone.
C18_SameAsAlone ==
    \A t \in Threads : cpc[t] = "done" => cout[t] = Alone(t)

-----------------------------------------------------------------------------
(* The !mux tag *)

IsMuxPair(o) == o.kind = "pair" /\ o.k.kind = "ctrl" /\ o.k.code = YAML_MUX

\* C21: a mapping tagged `!mux` is loaded as structural whatever its
\* entries, with one (MUX, None) entry after its other entries, and the node
\* assembled from it has multiplex = TRUE; a node has multiplex = TRUE only
\* if its own mapping or empty scalar carried the tag.
C21_MuxTag ==
    /\ (apc \in {"loaded", "built"} /\ loaded.err.kind = "none"
        /\ ydoc.tag = "!mux")
       => /\ loaded.val.kind = "list"
          /\ Len(loaded.val.items) = Len(ydoc.value) + 1
          /\ Last(loaded.val.items) = Pair(Control(YAML_MUX), NoneVal)
          /\ \A i \in 1..Len(ydoc.value) : ~IsMuxPair(loaded.val.items[i])
    /\ (apc = "built" /\ out.err.kind = "none")
       => LET base == BaseNode(out.val, RelocationDepth(ydoc))
          IN /\ base.multiplex <=> ydoc.tag = "!mux"
             /\ \A d \in 0..(RelocationDepth(ydoc) - 1) :
                  ~BaseNode(out.val, d).multiplex
             /\ \A j \in 1..Len(base.children) :
                  base.children[j].multiplex
                  <=> \E i \in 1..Len(ydoc.value) :
                        /\ ydoc.value[i].key.s = base.children[j].name
                        /\ ydoc.value[i].val.tag = "!mux"
             /\ \A i \in 1..Len(ydoc.value) :
                  (~IsCtrlEnt(ydoc.value[i]) /\ ydoc.value[i].val.tag = "!mux")
                  => \E j \in 1..Len(base.children) :
                       /\ base.children[j].name = ydoc.value[i].key.s
                       /\ base.children[j].multiplex

C21_Witness ==
    /\ apc = "built" /\ out.err.kind = "none"
    /\ ydoc.tag = "!mux"
    /\ ydoc.value = <<YEnt(YStr(<<"x">>), YStr(<<"v">>))>>
    /\ out.val.multiplex
    /\ out.val.value = <<[k |-> <<"x">>, v |-> Str(<<"v">>)]>>

-----------------------------------------------------------------------------
(* YamlToMux.initialize *)

\* exit_codes.AVOCADO_JOB_FAIL and exit_codes.AVOCADO_FAIL, by name
AVOCADO_JOB_FAIL == "AVOCADO_JOB_FAIL"
AVOCADO_FAIL == "AVOCADO_FAIL"

\* one file system per kind of outcome of the first file
PlugFileSystems ==
    {MakeFs(o, Missing, Missing, Missing, pp) :
        o \in {DocPlain, DocInc(<<"q">>), DocTwoUsing, Bad(MsgMappingValues),
               Bad(MsgOther), Empty, Missing},
        pp \in {DocPlain, DocTwoUsing, DocInc(<<"q">>)}}

PlugPaths == {<<>>, <<FO>>, <<FP>>, <<FO, FP>>, <<FP, FO>>}

InitPlugin ==
    /\ fs \in PlugFileSystems
    /\ mergeNone = "raises"
    /\ paths \in PlugPaths
    /\ debug \in BOOLEAN
    /\ pc = "idle"
    /\ idx = 0 /\ path = NoneVal /\ data = NoneVal /\ tmp = NoneVal
    /\ err = NoErr /\ reg = Unset /\ open = <<>> /\ log = <<>>
    /\ AsmIdle /\ RefIdle /\ ConcIdle /\ DlIdle /\ ResIdle
    /\ subcommand \in {<<"run">>, <<"variants">>}
    /\ ipc = "start"
    /\ iexit = NoneVal
    /\ isteps = <<>>

\* lines 501-512: `if multiplex_files:` and the call of create_from_yaml
EnterTry ==
    /\ ipc = "start"
    /\ IF paths # <<>>
       THEN ipc' = "try" /\ pc' = "start"
       ELSE ipc' = "inject" /\ pc' = pc
    /\ UNCHANGED <<fs, mergeNone, paths, debug, idx, path, data, tmp, err, reg, open, log>>
    /\ UNCHANGED <<subcommand, iexit, isteps>>
    /\ UNCHANGED <<asmVars, refVars, concVars, dlVars, resVars>>

\* line 512: data.merge(<what create_from_yaml returned>)
MergeResult ==
    /\ ipc = "try"
    /\ pc = "done"
    /\ isteps' = Append(isteps, "merge")
    /\ ipc' = "inject"
    /\ UNCHANGED orchVars
    /\ UNCHANGED <<subcommand, iexit>>
    /\ UNCHANGED <<asmVars, refVars, concVars, dlVars, resVars>>

\* lines 513-520: `except IOError` reports and exits; any other exception
\* leaves initialize as it is
HandleFailure ==
    /\ ipc = "try"
    /\ pc = "failed"
    /\ IF err.kind = "IOError"
       THEN /\ isteps' = Append(isteps, "LOG_UI.error")
            /\ iexit' = [kind |-> "SystemExit",
                         code |-> IF subcommand = <<"run">>
                                  THEN AVOCADO_JOB_FAIL ELSE AVOCADO_FAIL]
            /\ ipc' = "exited"
       ELSE /\ isteps' = isteps
            /\ iexit' = [kind |-> err.kind, code |-> "none"]
            /\ ipc' = "raised"
    /\ UNCHANGED orchVars
    /\ UNCHANGED subcommand
    /\ UNCHANGED <<asmVars, refVars, concVars, dlVars, resVars>>

\* lines 522-537: the injections, the filters and, for a tree that is not
\* the empty one, initialize_mux (the comparison of trees is the tree
\* class's own)
AfterMerge ==
    /\ ipc = "inject"
    /\ \E nonempty \in BOOLEAN :
         isteps' = isteps \o <<"inject", "apply_filters">>
                   \o (IF nonempty THEN <<"initialize_mux">> ELSE <<>>)
    /\ ipc' = "returned"
    /\ UNCHANGED orchVars
    /\ UNCHANGED <<subcommand, iexit>>
    /\ UNCHANGED <<asmVars, refVars, concVars, dlVars, resVars>>

NextPlugin ==
    \/ EnterTry \/ Start \/ CallCreate \/ DoMerge \/ Return \/ Except
    \/ MergeResult \/ HandleFailure \/ AfterMerge

SpecPlugin == InitPlugin /\ [][NextPlugin]_vars

\* C22: whatever error ends the assembly, initialize reports it, ends the
\* command with the job-failure status under 'run' and the generic failure
\* status otherwise, and runs no later step.
C22_EveryErrorExits ==
    (pc = "failed" /\ ipc # "try")
    => /\ ipc = "exited"
       /\ iexit.kind = "SystemExit"
       /\ iexit.code = (IF subcommand = <<"run">>
                        THEN AVOCADO_JOB_FAIL ELSE AVOCADO_FAIL)
       /\ isteps = <<"LOG_UI.error">>

-----------------------------------------------------------------------------
(* The include graph of a file system *)

RECURSIVE IncTargets(_)
\* the targets of the `!include` tags of a YAML value, at any depth
IncTargets(y) ==
    IF y.kind # "mapping" THEN {}
    ELSE UNION {IF y.value[i].key.tag = "!include"
                THEN {y.value[i].val.s}
                ELSE IncTargets(y.value[i].val) : i \in 1..Len(y.value)}

\* the files a file includes, each target taken against the file's own
\* directory
Includes(f) ==
    IF f \in DOMAIN fs /\ fs[f].kind = "doc"
    THEN {IF IsAbs(t) THEN t ELSE Join(Dirname(f), t) :
             t \in IncTargets(fs[f].root)} \cap DOMAIN fs
    ELSE {}

SetMax(S) == IF S = {} THEN 0 ELSE CHOOSE n \in S : \A k \in S : k <= n

RECURSIVE ChainFrom(_, _)
\* the number of includes on the longest include chain that starts at f,
\* followed for at most fuel includes
ChainFrom(f, fuel) ==
    IF fuel = 0 THEN 0
    ELSE SetMax({1 + ChainFrom(g, fuel - 1) : g \in Includes(f)})

\* no file includes itself, directly or through other files
Acyclic ==
    \A f \in DOMAIN fs :
        ChainFrom(f, Cardinality(DOMAIN fs) + 1) <= Cardinality(DOMAIN fs)

LongestChain ==
    SetMax({ChainFrom(ParseSpecifier(paths[i]).path, Cardinality(DOMAIN fs)) :
               i \in 1..Len(paths)})

\* C23: with an acyclic include graph, the number of _create_from_yaml calls
\* active at once never exceeds the length of the longest include chain
\* plus one.
C23_DepthWithinChain ==
    Acyclic
    => \A j \in 1..Len(log) :
         log[j].ev = "open" => log[j].depth <= LongestChain + 1

-----------------------------------------------------------------------------
(* File systems with an include cycle *)

\* /o includes itself, or /o and /s/i include each other
CyclicFileSystems ==
    {MakeFs(o, i, Missing, Missing, pp) :
        o \in {DocInc(FO), DocInc(<<"o">>), DocNestedOne(FO),
               DocInc(<<"s", "/", "i">>),
               DocNested(<<"s", "/", "i">>, <<"o">>)},
        i \in {DocInc(FO), DocNestedOne(FO), DocPlain},
        pp \in {DocPlain, Empty, Bad(MsgOther)}}
    \ {MakeFs(DocInc(<<"s", "/", "i">>), DocPlain, Missing, Missing, pp) :
        pp \in {DocPlain, Empty, Bad(MsgOther)}}

CyclicPaths == {<<FO>>, <<FO, FP>>, <<FP, FO>>, <<FP>>, <<FO, FO>>}

InitCycle ==
    /\ fs \in CyclicFileSystems
    /\ mergeNone = "raises"
    /\ paths \in CyclicPaths
    /\ debug \in BOOLEAN
    /\ pc = "start"
    /\ idx = 0 /\ path = NoneVal /\ data = NoneVal /\ tmp = NoneVal
    /\ err = NoErr /\ reg = Unset /\ open = <<>> /\ log = <<>>
    /\ AsmIdle /\ RefIdle /\ ConcIdle
    /\ PlugIdle /\ DlIdle /\ ResIdle

SpecCycle == InitCycle /\ [][Next]_vars

\* the file of a specifier includes itself, directly or through other files
OnCycle(sp) ==
    LET f == ParseSpecifier(sp).path
        n == Cardinality(DOMAIN fs)
    IN f \in DOMAIN fs /\ ChainFrom(f, n + 1) > n

\* the calls entered for a file while one path is loaded: the depths of the
\* open events of the file after the last "parse" event
LastParse ==
    LET I == {j \in 1..Len(log) : log[j].ev = "parse"}
    IN IF I = {} THEN 0 ELSE CHOOSE j \in I : \A k \in I : k <= j

DepthsOpened(f) ==
    {log[j].depth : j \in {k \in (LastParse + 1)..Len(log) :
                              log[k].ev = "open" /\ log[k].f = f}}

\* C24: nothing detects an include cycle: loading a file that includes
\* itself, directly or through other files, re-enters _create_from_yaml for
\* that file at ever greater depth until the depth the interpreter allows
\* is used up, and the assembly does not reach DONE.
C24_CycleRecursesToTheLimit ==
    /\ (pc = "done") => \A i \in 1..Len(paths) : ~OnCycle(paths[i])
    /\ (idx < Len(paths) /\ pc \in {"merge", "except", "failed"}
        /\ OnCycle(paths[idx + 1]))
       => /\ pc # "merge"
          /\ err.kind = "RecursionError"
          /\ Cardinality(DepthsOpened(ParseSpecifier(paths[idx + 1]).path)) >= 2
          /\ \E j \in 1..Len(log) : log[j].ev = "open" /\ log[j].depth = MaxDepth

-----------------------------------------------------------------------------
(* download.get_file *)

Hash(h) == [kind |-> "hash", h |-> h]

\* hash_expected, and a hash that differs from it
HashExpected == Hash("expected")
HashOther == Hash("other")

\* what _verify_hash(dst) gives: the hash of the file at dst, None without one
Hashes == {HashExpected, HashOther, NoneVal}

\* what url_download / shutil.copyfile / os.chmod may do: leave a file with
\* some hash at dst, leave none, or raise OSError
TransferOutcomes == Hashes \cup {[kind |-> "OSError"]}

InitDl ==
    /\ OrchIdle /\ AsmIdle /\ RefIdle /\ ConcIdle /\ PlugIdle /\ ResIdle
    /\ dargs \in [same : BOOLEAN, hashed : BOOLEAN, retries : 0..MaxRetries]
    /\ dst_hash \in Hashes
    /\ dpc = "start"
    /\ hash_file = NoneVal
    /\ download_failures = 0
    /\ downloads = 0
    /\ dret = NoneVal

\* lines 199-200: without hash_expected, one _get_file and its result
GetPlain ==
    /\ dpc = "start"
    /\ ~dargs.hashed
    /\ IF dargs.same
       THEN /\ dret' = [kind |-> "returned", val |-> "None"]
            /\ dpc' = "returned"
            /\ UNCHANGED <<dst_hash, downloads>>
       ELSE \E o \in TransferOutcomes :
            /\ downloads' = downloads + 1
            /\ IF o.kind = "OSError"
               THEN /\ dret' = [kind |-> "raised", exc |-> "EnvironmentError",
                                by |-> "transfer"]
                    /\ dpc' = "raised"
                    /\ dst_hash' \in {dst_hash, HashOther}
               ELSE /\ dret' = [kind |-> "returned", val |-> "dst"]
                    /\ dpc' = "returned"
                    /\ dst_hash' = o
    /\ UNCHANGED <<dargs, hash_file, download_failures>>
    /\ UNCHANGED <<orchVars, asmVars, refVars, concVars, plugVars, resVars>>

\* lines 202-203: download_failures = 0; hash_file = _verify_hash(dst)
VerifyFirst ==
    /\ dpc = "start"
    /\ dargs.hashed
    /\ download_failures' = 0
    /\ hash_file' = dst_hash
    /\ dpc' = "loop"
    /\ UNCHANGED <<dargs, dst_hash, downloads, dret>>
    /\ UNCHANGED <<orchVars, asmVars, refVars, concVars, plugVars, resVars>>

\* lines 207-209: if hash_file != hash_expected: download_failures += 1
CountFailure(h, failures) ==
    IF h # HashExpected THEN failures + 1 ELSE failures

\* lines 205-217: one pass of the while loop
Retry ==
    /\ dpc = "loop"
    /\ ~(hash_file = HashExpected)
    /\ IF dargs.same
       \* _get_file returns None and os.path.isfile(None) raises TypeError
       THEN /\ dret' = [kind |-> "raised", exc |-> "TypeError",
                        by |-> "_verify_hash"]
            /\ dpc' = "raised"
            /\ UNCHANGED <<dst_hash, downloads, hash_file, download_failures>>
       ELSE \E o \in TransferOutcomes :
            /\ downloads' = downloads + 1
            /\ IF o.kind = "OSError"
               THEN /\ dret' = [kind |-> "raised", exc |-> "EnvironmentError",
                                by |-> "transfer"]
                    /\ dpc' = "raised"
                    /\ dst_hash' \in {dst_hash, HashOther}
                    /\ UNCHANGED <<hash_file, download_failures>>
               ELSE /\ dst_hash' = o
                    /\ hash_file' = o
                    /\ download_failures' = CountFailure(o, download_failures)
                    /\ IF download_failures' > dargs.retries
                       THEN /\ dret' = [kind |-> "raised",
                                        exc |-> "EnvironmentError",
                                        by |-> "get_file"]
                            /\ dpc' = "raised"
                       ELSE /\ dret' = dret
                            /\ dpc' = "loop"
    /\ UNCHANGED dargs
    /\ UNCHANGED <<orchVars, asmVars, refVars, concVars, plugVars, resVars>>

\* line 219: return dst
ReturnDst ==
    /\ dpc = "loop"
    /\ hash_file = HashExpected
    /\ dret' = [kind |-> "returned", val |-> "dst"]
    /\ dpc' = "returned"
    /\ UNCHANGED <<dargs, dst_hash, hash_file, download_failures, downloads>>
    /\ UNCHANGED <<orchVars, asmVars, refVars, concVars, plugVars, resVars>>

NextDl == GetPlain \/ VerifyFirst \/ Retry \/ ReturnDst

SpecDl == InitDl /\ [][NextDl]_vars

\* C25: with a hash_expected, get_file makes no download when dst has the
\* expected hash; it never makes more than download_retries + 1 downloads;
\* what it returns is dst and dst then has the expected hash; what it raises
\* is an EnvironmentError, and its own only after more than
\* download_retries failed downloads; and it never stops in between.
C25_GetFileHashed ==
    dargs.hashed
    => /\ downloads <= dargs.retries + 1
       /\ dpc = "returned"
          => /\ dret.val = "dst"
             /\ dst_hash = HashExpected
       /\ dpc = "raised"
          => /\ dret.exc = "EnvironmentError"
             /\ dret.by = "get_file"
                => /\ download_failures > dargs.retries
                   /\ downloads = dargs.retries + 1
       /\ (dpc = "loop" /\ downloads = 0 /\ dst_hash = HashExpected)
          => hash_file = HashExpected
       /\ dpc = "loop" => download_failures <= dargs.retries
       /\ download_failures <= downloads

-----------------------------------------------------------------------------
(* Plain or structural, level by level *)

IsPlainMappingEnt(e) ==
    ~IsCtrlEnt(e) /\ e.val.kind = "mapping" /\ ~IsStructuralY(e.val)

IsStructuralMappingEnt(e) ==
    ~IsCtrlEnt(e) /\ e.val.kind = "mapping" /\ IsStructuralY(e.val)

\* the child nodes of a node that have a given name
ChildrenNamed(node, name) ==
    SelectSeq(node.children, LAMBDA ch : ch.name = name)

\* C26: a mapping that holds a structural mapping as a value is loaded as
\* structural, the value being a node already; a mapping with no directive
\* key and no structural value is loaded plain whether its parent is
\* structural or not, and is then assembled as a child node with its keys in
\* the value-store and no child.
C26_DecidedPerLevel ==
    (apc \in {"loaded", "built"} /\ loaded.err.kind = "none")
    => /\ \A i \in 1..Len(ydoc.value) :
            LET e == ydoc.value[i]
            IN /\ IsStructuralMappingEnt(e)
                  => /\ loaded.val.kind = "list"
                     /\ loaded.val.items[i].kind = "node"
               /\ (IsPlainMappingEnt(e) /\ loaded.val.kind = "list")
                  => loaded.val.items[i] =
                       Pair(Str(e.key.s),
                            [kind |-> "dict", items |->
                               [j \in 1..Len(StoreOf(e.val.value)) |->
                                  [k |-> Str(StoreOf(e.val.value)[j].k),
                                   v |-> StoreOf(e.val.value)[j].v]]])
               /\ (IsPlainMappingEnt(e) /\ loaded.val.kind = "dict")
                  => \E j \in 1..Len(loaded.val.items) :
                       /\ loaded.val.items[j].k = Str(e.key.s)
                       /\ loaded.val.items[j].v.kind = "dict"
       /\ (apc = "built" /\ out.err.kind = "none")
          => LET base == BaseNode(out.val, RelocationDepth(ydoc))
             IN \A i \in 1..Len(ydoc.value) :
                  LET e == ydoc.value[i]
                  IN IsPlainMappingEnt(e)
                     => /\ ChildrenNamed(base, e.key.s) # <<>>
                        /\ \A j \in 1..Len(ChildrenNamed(base, e.key.s)) :
                             LET ch == ChildrenNamed(base, e.key.s)[j]
                             IN /\ ch.children = <<>>
                                /\ ch.value = StoreOf(e.val.value)
                                /\ ch.ctrl = <<>> /\ ~ch.multiplex

C26_Witness ==
    /\ apc = "built" /\ out.err.kind = "none"
    /\ loaded.val.kind = "list"
    /\ Len(ydoc.value) = 3
    /\ IsPlainMappingEnt(ydoc.value[1])
    /\ IsStructuralMappingEnt(ydoc.value[2])
    /\ ~IsCtrlEnt(ydoc.value[3]) /\ ydoc.value[3].val.kind = "scalar"
    /\ loaded.val.items[1].kind = "pair"
    /\ loaded.val.items[1].v.kind = "dict"
    /\ loaded.val.items[2].kind = "node"
    /\ Len(out.val.children) >= 2
    /\ out.val.children[1].value = <<[k |-> <<"x">>, v |-> Str(<<"v">>)]>>

-----------------------------------------------------------------------------
(* One file loaded under a namespace *)

DocUsing ==
    [kind |-> "doc",
     root |-> YMap("map", <<YEnt(YScalar("!using", <<>>), YStr(<<"c">>)), XV>>)]

\* `file`, `a/b:file`, `/a/b:file`, `n:file`, `a\:b:file` and `/:file`
PrefixSpecs ==
    {FP,
     <<"a", "/", "b", ":">> \o FP,
     <<"/", "a", "/", "b", ":">> \o FP,
     <<"n", ":">> \o FP,
     <<"a", "\\", ":", "b", ":">> \o FP,
     <<"/", ":">> \o FP}

PrefixFileSystems ==
    {MakeFs(Missing, i, Missing, Missing, pp) :
        i \in {Missing, DocPlain},
        pp \in {DocPlain, DocUsing, DocInc(<<"s", "/", "i">>),
               DocNestedOne(<<"s", "/", "i">>), Empty}}

InitPrefix ==
    /\ fs \in PrefixFileSystems
    /\ mergeNone = "raises"
    /\ paths \in {<<sp>> : sp \in PrefixSpecs}
    /\ debug \in BOOLEAN
    /\ pc = "start"
    /\ idx = 0 /\ path = NoneVal /\ data = NoneVal /\ tmp = NoneVal
    /\ err = NoErr /\ reg = Unset /\ open = <<>> /\ log = <<>>
    /\ AsmIdle /\ RefIdle /\ ConcIdle
    /\ PlugIdle /\ DlIdle /\ ResIdle

SpecPrefix == InitPrefix /\ [][Next]_vars

RECURSIVE ChainUnder(_, _, _)
\* the chain segs[1] -> segs[2] -> ... -> leaf, each node with one child
ChainUnder(cls, segs, leaf) ==
    IF segs = <<>> THEN leaf
    ELSE NewNode(cls, Head(segs), <<ChainUnder(cls, Tail(segs), leaf)>>)

\* the node class create_from_yaml passes for a specifier
ClsFor(sp) == IF debug THEN get_named_tree_cls(sp) ELSE MuxTreeNode

\* the document's own top-level node: what the file gives under the empty
\* namespace, as `!include` loads it
TopLevelNode(sp) ==
    _create_from_yaml(<<"/", ":">> \o ParseSpecifier(sp).path, ClsFor(sp),
                      [reg |-> Unset, open |-> <<>>, log |-> <<>>,
                       depth |-> 0, mergeNone |-> mergeNone]).val

\* C27: a non-empty document loaded under the namespace s1..sk, k >= 1,
\* comes back as an anonymous root over the chain s1 -> ... -> sk, sk being
\* the document's own top-level node; under the empty namespace that node
\* comes back as it is, anonymous and unwrapped.
C27_NamespacePrefix ==
    (pc = "merge" /\ tmp.kind = "node")
    => LET sp == paths[idx + 1]
           segs == ParseSpecifier(sp).using
           top == TopLevelNode(sp)
       IN /\ segs # <<>>
             => tmp = NewNode(ClsFor(sp), <<>>,
                        <<ChainUnder(ClsFor(sp), Front(segs),
                                     [top EXCEPT !.name = Last(segs)])>>)
          /\ segs = <<>> => tmp = top /\ tmp.name = <<>>
          /\ sp = FP => segs = <<RunSeg>>
          /\ sp = <<"a", "/", "b", ":">> \o FP
             => segs = <<RunSeg, <<"a">>, <<"b">>>>
          /\ sp = <<"/", "a", "/", "b", ":">> \o FP
             => segs = <<<<"a">>, <<"b">>>>
          /\ sp = <<"/", ":">> \o FP => segs = <<>>

C27_Witness ==
    /\ pc = "merge" /\ tmp.kind = "node"
    /\ paths = << <<"a", "/", "b", ":">> \o FP >>
    /\ fs[FP] = DocPlain
    /\ tmp.name = <<>> /\ Len(tmp.children) = 1
    /\ tmp.children[1].name = RunSeg
    /\ tmp.children[1].children[1].name = <<"a">>
    /\ tmp.children[1].children[1].children[1].name = <<"b">>
    /\ tmp.children[1].children[1].children[1].value
         = <<[k |-> <<"x">>, v |-> Str(<<"v">>)]>>

-----------------------------------------------------------------------------
(* What `!include` hands to node.merge *)

\* the arguments of the node.merge calls made so far, in order
MergeArgs == [i \in {j \in DOMAIN log : log[j].ev = "node.merge"} |-> log[i].arg]

\* C28: every node.merge call an `!include` makes is given a tree node;
\* an included file with an empty document does not make merge be called
\* with None.
C28_MergeGetsATreeNode ==
    \A i \in DOMAIN MergeArgs : MergeArgs[i] = "node"

-----------------------------------------------------------------------------
(* Resolver.resolve (avocado/core/resolver.py) *)

\* ReferenceResolutionResult
SUCCESS == "SUCCESS"
CORRUPT == "CORRUPT"
NOTFOUND == "NOTFOUND"
ERROR == "ERROR"

\* ReferenceResolutionAction
RETURN == "RETURN"
CONTINUE == "CONTINUE"

\* faulty variant: a corrupt reference lets the later extensions try
DEFAULT_POLICY_CorruptContinues ==
    (SUCCESS :> RETURN) @@ (CORRUPT :> CONTINUE)
    @@ (NOTFOUND :> CONTINUE) @@ (ERROR :> CONTINUE)

\* Resolver.DEFAULT_POLICY
DEFAULT_POLICY ==
    (SUCCESS :> RETURN) @@ (CORRUPT :> RETURN)
    @@ (NOTFOUND :> CONTINUE) @@ (ERROR :> CONTINUE)

\* self.DEFAULT_POLICY.get(result.result, ReferenceResolutionAction.CONTINUE)
PolicyAction(result) ==
    IF result \in DOMAIN DEFAULT_POLICY THEN DEFAULT_POLICY[result]
    ELSE CONTINUE

\* classes caught by `except Exception`; SystemExit and KeyboardInterrupt
\* derive from BaseException only
ExceptionSubclasses == {"ValueError", "AttributeError"}

\* ext.name of the i-th extension
ExtName(i) == [kind |-> "name", of |-> i]

\* what ext.obj.resolve(reference) may do: return a ReferenceResolution
\* (its result one of the four or something else, its origin set or
\* not), return None, or raise
ExtBehaviours ==
    [does : {"returns"},
     result : {SUCCESS, CORRUPT, NOTFOUND, ERROR, "other"},
     origin : {NoneVal, [kind |-> "own"]}, exc : {""}]
    \cup [does : {"returnsNone"}, result : {""}, origin : {NoneVal},
          exc : {""}]
    \cup [does : {"raises"}, result : {""}, origin : {NoneVal},
          exc : {"ValueError", "SystemExit"}]

\* ReferenceResolution(reference, result, info=..., origin=...)
ReferenceResolution(result, info, origin) ==
    [result |-> result, info |-> info, origin |-> origin]

\* the body of the try of one iteration: the exception that leaves it, or
\* the result it binds
TryResolve(i) ==
    LET ext == exts[i]
    IN CASE ext.does = "raises" -> [raised |-> ext.exc, result |-> NoneVal]
         [] ext.does = "returnsNone" ->
              \* None has no attribute `origin`
              [raised |-> "AttributeError", result |-> NoneVal]
         [] OTHER ->
              [raised |-> "",
               result |-> ReferenceResolution(
                            ext.result, [kind |-> "from", of |-> i],
                            IF ext.origin = NoneVal THEN ExtName(i)
                            ELSE ext.origin)]

InitRes ==
    /\ exts \in UNION {[1..n -> ExtBehaviours] : n \in 0..MaxExts}
    /\ epc = "loop"
    /\ eidx = 0
    /\ resolution = <<>>
    /\ eraised = NoneVal
    /\ OrchIdle /\ AsmIdle /\ RefIdle /\ ConcIdle /\ PlugIdle /\ DlIdle

\* one iteration of `for ext in self.extensions`
Consult ==
    /\ epc = "loop"
    /\ eidx < Len(exts)
    /\ LET i == eidx + 1
           t == TryResolve(i)
       IN IF t.raised # "" /\ t.raised \notin ExceptionSubclasses
          THEN /\ eraised' = [kind |-> "exc", exc |-> t.raised]
               /\ epc' = "raised"
               /\ UNCHANGED <<eidx, resolution>>
          ELSE LET result ==
                       IF t.raised # ""
                       THEN ReferenceResolution(
                              ERROR, [kind |-> "exc", exc |-> t.raised],
                              ExtName(i))
                       ELSE t.result
               IN /\ resolution' = Append(resolution, result)
                  /\ eidx' = i
                  /\ epc' = IF PolicyAction(result.result) = RETURN
                            THEN "break" ELSE "loop"
                  /\ UNCHANGED eraised
    /\ UNCHANGED exts
    /\ UNCHANGED <<orchVars, asmVars, refVars, concVars, plugVars, dlVars>>

\* `return resolution`, after the loop ended or was broken out of
ReturnResolution ==
    /\ \/ epc = "break"
       \/ epc = "loop" /\ eidx = Len(exts)
    /\ epc' = "returned"
    /\ UNCHANGED <<exts, eidx, resolution, eraised>>
    /\ UNCHANGED <<orchVars, asmVars, refVars, concVars, plugVars, dlVars>>

NextRes == Consult \/ ReturnResolution

SpecRes == InitRes /\ [][NextRes]_vars

\* the index of the first extension that returns SUCCESS or CORRUPT,
\* Len(exts) + 1 when there is none
FirstFinal ==
    LET final == {i \in DOMAIN exts :
                    exts[i].does = "returns"
                    /\ exts[i].result \in {SUCCESS, CORRUPT}}
    IN IF final = {} THEN Len(exts) + 1
       ELSE CHOOSE i \in final : \A j \in final : i <= j

\* the i-th result is the i-th extension's: the result it returned, or ERROR
\* with that extension as origin when it raised
ResultOf(i) ==
    /\ exts[i].does = "returns"
       => /\ resolution[i].result = exts[i].result
          /\ resolution[i].info = [kind |-> "from", of |-> i]
    /\ exts[i].does # "returns"
       => /\ resolution[i].result = ERROR
          /\ resolution[i].origin = ExtName(i)

\* extensions are consulted in order, one result each, up to and including
\* the first SUCCESS or CORRUPT and not beyond
InOrderUpToFirstFinal ==
    /\ Len(resolution) = eidx
    /\ eidx <= Len(exts) /\ eidx <= FirstFinal
    /\ \A i \in DOMAIN resolution : ResultOf(i)
    /\ epc = "returned" => eidx = IF FirstFinal <= Len(exts) THEN FirstFinal
                                  ELSE Len(exts)

\* C29 as stated: the results come in the extensions' order, one per
\* consulted extension, up to the first SUCCESS or CORRUPT, and no
\* exception raised by an extension aborts the resolution.
C29_NoExceptionAborts ==
    /\ InOrderUpToFirstFinal
    /\ epc # "raised"

\* C29, amended: the results come in the extensions' order, one per
\* consulted extension, up to the first SUCCESS or CORRUPT; an exception
\* that derives from Exception is recorded as an ERROR result with the
\* extension as origin and the resolution goes on, and only an exception
\* that does not derive from Exception leaves resolve.
C29_OnlyNonExceptionAborts ==
    /\ InOrderUpToFirstFinal
    /\ epc = "raised"
       => /\ exts[eidx + 1].does = "raises"
          /\ exts[eidx + 1].exc \notin ExceptionSubclasses
          /\ eraised = [kind |-> "exc", exc |-> exts[eidx + 1].exc]

C29_Witness ==
    /\ epc = "returned"
    /\ Len(exts) = 3
    /\ exts[1].does = "raises" /\ exts[1].exc = "ValueError"
    /\ exts[2].does = "returns" /\ exts[2].result = CORRUPT
    /\ resolution = <<ReferenceResolution(
                        ERROR, [kind |-> "exc", exc |-> "ValueError"],
                        ExtName(1)),
                      ReferenceResolution(
                        CORRUPT, [kind |-> "from", of |-> 2],
                        [kind |-> "own"])>>

=============================================================================
